---- MODULE Spec2Model ----
(***************************************************************************)
(* A model of the recipe site's unit converter and ingredient scaler       *)
(* (src/src/lib/utils.ts), of the in-memory recipe query of the front end  *)
(* (src/src/lib/api.ts) and of the public recipes endpoint with its stored *)
(* query (src/api/public/recipes.js, get_published_recipes).               *)
(*                                                                         *)
(* Numbers that carry decimals (quantities, converted values) are held as  *)
(* integers counting hundredths: 0.75 is 75, 400 is 40000.  A conversion   *)
(* multiplier is the exact decimal of the source, num / den.  Arithmetic   *)
(* is exact decimal arithmetic; Math.round is floor(x + 1/2).              *)
(***************************************************************************)
EXTENDS Integers, Sequences, FiniteSets, TLC

VARIABLES
  conv,         \* the last convertUnits call: its arguments and its result
  back,         \* convertUnits applied to the result held in conv
  scaled,       \* the last scaleIngredientQuantity call
  shown,        \* the last ingredient line computed by RecipeDetailPage
  mockRecipes,  \* api.ts: the module-level recipe collection
  query,        \* the last getMockRecipes call: its arguments and its result
  recipes,      \* the server's recipes table
  response,     \* the last response of GET /api/public/recipes
  admin,        \* the last request to an admin endpoint and its status
  db,           \* the other tables and the storage bucket
  panel,        \* RecipeFilters: the last toggleArrayFilter call
  app,          \* AppProvider: its state, its pending work and localStorage
  auth,         \* AuthProvider: its state and the profile loads in flight
  recipesPage   \* RecipesPage: its state, its timers and its fetches in flight

vars == <<conv, back, scaled, shown, mockRecipes, query, recipes, response, admin, db, panel, app, auth, recipesPage>>

unitVars == <<conv, back, scaled, shown>>
mockVars == <<mockRecipes, query>>
serverVars == <<recipes, response, admin, db>>
uiVars == <<panel, app, auth, recipesPage>>

\* An optional value: absent (undefined) or present.
Absent == <<>>
Some(v) == <<v>>
IsPresent(o) == Len(o) = 1
Val(o) == o[1]

NoCall == [called |-> FALSE]

\* AuthProvider after its first render: no user, no roles, no profile load
\* in flight.
SignedOut ==
  [user |-> <<>>, profile |-> <<>>, isAdmin |-> FALSE, isModerator |-> FALSE,
   loading |-> TRUE, loads |-> {}, events |-> 0]

\* AppProvider before its first mount, with nothing in localStorage.
Unmounted ==
  [mounted |-> FALSE, unitSystem |-> "metric", favorites |-> <<>>, queue |-> <<>>,
   effects |-> {}, localStorage |-> [unitSystem |-> <<>>, favorites |-> <<>>],
   reloads |-> 0, touched |-> FALSE,
   settled |-> [unitSystem |-> "metric", favorites |-> <<>>],
   before |-> [unitSystem |-> "metric", favorites |-> <<>>]]

\* recipe_ingredients, recipe_steps and admin_audit without rows, and the
\* bucket recipe-images without files and without signed upload URLs.
EmptyDb == [ingredients |-> {}, steps |-> {}, audit |-> {}, files |-> {}, signed |-> {}]

(***************************************************************************)
(* Strings are sequences of characters, so that toLowerCase, includes and  *)
(* the comparison of strings are computed character by character.          *)
(***************************************************************************)

\* The characters in use, in the order of their UTF-16 code units.
Alphabet ==
  << " ", "B", "C", "D", "E", "F", "G", "H", "I", "K", "L", "M", "N", "O", "P",
     "Q", "S", "T", "U", "V", "Z",
     "a", "b", "c", "d", "e", "f", "g", "h", "i", "k", "l", "m", "n", "o", "p",
     "q", "r", "s", "t", "u", "v", "y", "z", "°" >>

CharCode(c) == CHOOSE i \in 1..Len(Alphabet) : Alphabet[i] = c

UpperToLower ==
  [c \in {"B", "C", "D", "E", "F", "G", "H", "I", "K", "L", "M", "N", "O", "P",
          "Q", "S", "T", "U", "V", "Z"} |->
     CASE c = "B" -> "b" [] c = "C" -> "c" [] c = "D" -> "d" [] c = "E" -> "e"
       [] c = "F" -> "f" [] c = "G" -> "g" [] c = "H" -> "h" [] c = "I" -> "i"
       [] c = "K" -> "k" [] c = "L" -> "l" [] c = "M" -> "m" [] c = "N" -> "n"
       [] c = "O" -> "o" [] c = "P" -> "p" [] c = "Q" -> "q" [] c = "S" -> "s"
       [] c = "T" -> "t" [] c = "U" -> "u" [] c = "V" -> "v" [] c = "Z" -> "z"]

LowerChar(c) == IF c \in DOMAIN UpperToLower THEN UpperToLower[c] ELSE c

\* String.prototype.toLowerCase
toLowerCase(s) == [i \in 1..Len(s) |-> LowerChar(s[i])]

\* String.prototype.includes
includes(s, sub) ==
  \E i \in 0..(Len(s) - Len(sub)) : SubSeq(s, i + 1, i + Len(sub)) = sub

(***************************************************************************)
(* convertUnits and scaleIngredientQuantity (src/src/lib/utils.ts)         *)
(***************************************************************************)

\* Math.round(num / den) for den > 0: the nearest integer, a tie rounded up.
MathRound(num, den) ==
  (num \div den) + (IF 2 * (num % den) >= den THEN 1 ELSE 0)

Mult(num, den) == [num |-> num, den |-> den]
One == Mult(1, 1)

\* The unit symbols that are keys of the conversion table.
UnitG == <<"g">>
UnitKg == <<"k", "g">>
UnitOz == <<"o", "z">>
UnitLb == <<"l", "b">>
UnitMl == <<"m", "l">>
UnitL == <<"l">>
UnitFlOz == <<"f", "l", " ", "o", "z">>
UnitPint == <<"p", "i", "n", "t">>
UnitDegC == <<"°", "C">>
UnitDegF == <<"°", "F">>

TableKeys ==
  { UnitG, UnitKg, UnitOz, UnitLb, UnitMl, UnitL, UnitFlOz, UnitPint,
    UnitDegC, UnitDegF }

Entry(mv, mu, iv, iu) ==
  [metric |-> [value |-> mv, unit |-> mu], imperial |-> [value |-> iv, unit |-> iu]]

\* const conversions: Record<string, UnitConversion>
conversions ==
  [k \in TableKeys |->
     CASE k = UnitG -> Entry(One, UnitG, Mult(35274, 1000000), UnitOz)
       [] k = UnitKg -> Entry(One, UnitKg, Mult(220462, 100000), UnitLb)
       [] k = UnitOz -> Entry(Mult(283495, 10000), UnitG, One, UnitOz)
       [] k = UnitLb -> Entry(Mult(453592, 1000000), UnitKg, One, UnitLb)
       [] k = UnitMl -> Entry(One, UnitMl, Mult(33814, 1000000), UnitFlOz)
       [] k = UnitL -> Entry(One, UnitL, Mult(175975, 100000), UnitPint)
       [] k = UnitFlOz -> Entry(Mult(295735, 10000), UnitMl, One, UnitFlOz)
       [] k = UnitPint -> Entry(Mult(568261, 1000), UnitMl, One, UnitPint)
       [] k = UnitDegC -> Entry(One, UnitDegC, One, UnitDegF)
       [] k = UnitDegF -> Entry(One, UnitDegC, One, UnitDegF)]

\* conversions[key]: the entry, or absent (undefined) when key is no key.
Lookup(key) == IF key \in TableKeys THEN Some(conversions[key]) ELSE Absent

\* quantity * m for a quantity in hundredths (>= 0): the exact product in
\* hundredths, as whole + rem / den with 0 <= rem < den.  It is computed
\* digit by digit of the quantity, which keeps every term small.
RECURSIVE Product(_, _)
Product(quantity, m) ==
  IF quantity = 0 THEN [whole |-> 0, rem |-> 0, den |-> m.den]
  ELSE LET p == Product(quantity \div 10, m)
           low == 10 * p.rem + (quantity % 10) * m.num
       IN  [whole |-> 10 * p.whole + (low \div m.den),
            rem |-> low % m.den,
            den |-> m.den]

\* RoundConverted with one decimal kept whatever the value.
RoundConverted_OneDecimal(p) ==
  10 * ((p.whole \div 10) + (IF p.whole % 10 >= 5 THEN 1 ELSE 0))

\* convertedValue < 1 ? Math.round(convertedValue * 100) / 100
\*                    : Math.round(convertedValue * 10) / 10
RoundConverted(p) ==
  IF p.whole < 100
  THEN p.whole + (IF 2 * p.rem >= p.den THEN 1 ELSE 0)
  ELSE 10 * ((p.whole \div 10) + (IF p.whole % 10 >= 5 THEN 1 ELSE 0))

\* convertUnits with the metric side of the entry taken for every target.
convertUnits_MetricSide(quantity, unit, targetSystem) ==
  LET conversion == Lookup(toLowerCase(unit))
  IN  IF ~IsPresent(conversion)
      THEN [value |-> quantity, unit |-> unit]
      ELSE IF unit = UnitDegC /\ targetSystem = "imperial"
      THEN [value |-> 100 * MathRound(9 * quantity + 16000, 500), unit |-> UnitDegF]
      ELSE IF unit = UnitDegF /\ targetSystem = "metric"
      THEN [value |-> 100 * MathRound(quantity - 3200, 180), unit |-> UnitDegC]
      ELSE LET target == Val(conversion).metric
           IN  [value |-> RoundConverted(Product(quantity, target.value)),
                unit |-> target.unit]

\* convertUnits with the quantity rounded also when no entry is found.
convertUnits_RoundsUnknown(quantity, unit, targetSystem) ==
  LET conversion == Lookup(toLowerCase(unit))
  IN  IF ~IsPresent(conversion)
      THEN [value |-> RoundConverted(Product(quantity, One)), unit |-> unit]
      ELSE LET target == Val(conversion)[targetSystem]
           IN  [value |-> RoundConverted(Product(quantity, target.value)),
                unit |-> target.unit]

convertUnits(quantity, unit, targetSystem) ==
  LET conversion == Lookup(toLowerCase(unit))
  IN  IF ~IsPresent(conversion)
      THEN [value |-> quantity, unit |-> unit]
      ELSE IF unit = UnitDegC /\ targetSystem = "imperial"
      THEN [value |-> 100 * MathRound(9 * quantity + 16000, 500), unit |-> UnitDegF]
      ELSE IF unit = UnitDegF /\ targetSystem = "metric"
      THEN [value |-> 100 * MathRound(quantity - 3200, 180), unit |-> UnitDegC]
      ELSE LET target == Val(conversion)[targetSystem]
           IN  [value |-> RoundConverted(Product(quantity, target.value)),
                unit |-> target.unit]

\* scaleIngredientQuantity with the middle tier divided by 100 in place of 10.
scaleIngredientQuantity_WrongDivisor(originalQuantity, originalServings, newServings) ==
  LET num == originalQuantity * newServings
      den == originalServings
  IN  IF num < 100 * den THEN MathRound(num, den)
      ELSE IF num < 1000 * den THEN MathRound(num, 10 * den)
      ELSE 100 * MathRound(num, 100 * den)

\* scaleIngredientQuantity with the tier chosen by the original quantity.
scaleIngredientQuantity_TierOfOriginal(originalQuantity, originalServings, newServings) ==
  LET num == originalQuantity * newServings
      den == originalServings
  IN  IF originalQuantity < 100 THEN MathRound(num, den)
      ELSE IF originalQuantity < 1000 THEN 10 * MathRound(num, 10 * den)
      ELSE 100 * MathRound(num, 100 * den)

scaleIngredientQuantity(originalQuantity, originalServings, newServings) ==
  LET num == originalQuantity * newServings
      den == originalServings
  IN  IF num < 100 * den THEN MathRound(num, den)
      ELSE IF num < 1000 * den THEN 10 * MathRound(num, 10 * den)
      ELSE 100 * MathRound(num, 100 * den)

(***************************************************************************)
(* The calls of the two functions.  Quantities are numbers with at most    *)
(* two decimals (the schema stores DECIMAL(10,2)), here in hundredths.     *)
(***************************************************************************)

MaxCenti == 120
MaxWhole == 40
MaxTens == 25
MaxServings == 8

Quantities ==
  (0..MaxCenti) \cup {100 * k : k \in 0..MaxWhole} \cup {1000 * k : k \in 0..MaxTens}

Systems == {"metric", "imperial"}

\* The characters that toLowerCase maps to the same character as c.
CaseVariants(c) == {Alphabet[i] : i \in {j \in 1..Len(Alphabet) : LowerChar(Alphabet[j]) = LowerChar(c)}}

\* Every upper/lower-case spelling of s.
RECURSIVE Spellings(_)
Spellings(s) ==
  IF s = <<>> THEN {<<>>}
  ELSE {<<c>> \o rest : c \in CaseVariants(Head(s)), rest \in Spellings(Tail(s))}

UnitPcs == <<"p", "c", "s">>
UnitTsp == <<"t", "s", "p">>
UnitPieces == <<"p", "i", "e", "c", "e", "s">>
UnitToTaste == <<"t", "o", " ", "t", "a", "s", "t", "e">>

\* The unit strings that are no key of the table in any spelling.
UnknownUnits == {UnitPcs, UnitTsp, UnitPieces, UnitToTaste}

UnitStrings == UNION {Spellings(k) : k \in TableKeys} \cup UnknownUnits

Call(quantity, unit, targetSystem) ==
  [called |-> TRUE, quantity |-> quantity, unit |-> unit,
   targetSystem |-> targetSystem,
   result |-> convertUnits(quantity, unit, targetSystem)]

\* convertUnits(quantity, unit, targetSystem)
ConvertUnits ==
  /\ ~conv.called /\ ~scaled.called /\ ~shown.called
  /\ \E quantity \in Quantities, unit \in UnitStrings, targetSystem \in Systems :
    /\ conv' = Call(quantity, unit, targetSystem)
    /\ back' = NoCall
    /\ scaled' = NoCall
    /\ UNCHANGED <<shown, mockVars, serverVars, uiVars>>

\* convertUnits applied to the value and unit that the last call returned
ConvertBack ==
  /\ conv.called /\ ~back.called
  /\ \E targetSystem \in Systems :
    /\ back' = Call(conv.result.value, conv.result.unit, targetSystem)
    /\ UNCHANGED <<conv, scaled, shown, mockVars, serverVars, uiVars>>

\* scaleIngredientQuantity(originalQuantity, originalServings, newServings)
ScaleIngredientQuantity ==
  /\ ~conv.called /\ ~scaled.called /\ ~shown.called
  /\ \E originalQuantity \in Quantities, originalServings \in 1..MaxServings,
        newServings \in 0..(2 * MaxServings) :
    /\ scaled' = [called |-> TRUE, originalQuantity |-> originalQuantity,
                  originalServings |-> originalServings,
                  newServings |-> newServings,
                  result |-> scaleIngredientQuantity(originalQuantity,
                                                     originalServings, newServings),
                  more |-> NoCall]
    /\ conv' = NoCall
    /\ back' = NoCall
    /\ UNCHANGED <<shown, mockVars, serverVars, uiVars>>

\* scaleIngredientQuantity called again for the same ingredient and recipe
\* with no fewer servings (adjustServings raises the servings)
ScaleForMoreServings ==
  /\ scaled.called /\ ~scaled.more.called
  /\ \E newServings \in scaled.newServings..(2 * MaxServings) :
    /\ scaled' = [scaled EXCEPT !.more =
                    [called |-> TRUE, newServings |-> newServings,
                     result |-> scaleIngredientQuantity(scaled.originalQuantity,
                                                        scaled.originalServings,
                                                        newServings)]]
    /\ UNCHANGED <<conv, back, shown, mockVars, serverVars, uiVars>>

(***************************************************************************)
(* The ingredient line of RecipeDetailPage and of the grocery-list export  *)
(* (src/unnamed/part_004): scaleIngredientQuantity, then convertUnits, on  *)
(* the quantity and unit of an ingredient as the data holds them.  A value *)
(* of the data is null, undefined, a number or a string; a computed number *)
(* may be NaN.                                                             *)
(***************************************************************************)

Null == [kind |-> "null"]
Undefined == [kind |-> "undefined"]
Num(n) == [kind |-> "number", n |-> n]
Str(s) == [kind |-> "string", s |-> s]
NaN == [kind |-> "NaN"]

Threw == [threw |-> TRUE]
Returned(value, unit) == [threw |-> FALSE, value |-> value, unit |-> unit]

\* scaleIngredientQuantity on a value of the data: null counts as 0 in the
\* product, undefined gives NaN, which fails both comparisons and is
\* returned by Math.round.
ScaleValue(quantity, originalServings, newServings) ==
  CASE quantity.kind = "number" ->
         Num(scaleIngredientQuantity(quantity.n, originalServings, newServings))
    [] quantity.kind = "null" ->
         Num(scaleIngredientQuantity(0, originalServings, newServings))
    [] OTHER -> NaN

\* convertUnits on a computed quantity and a unit of the data:
\* unit.toLowerCase() throws a TypeError when unit is null or undefined.
ConvertValue(quantity, unit, targetSystem) ==
  IF unit.kind # "string" THEN Threw
  ELSE IF quantity.kind = "number"
  THEN LET r == convertUnits(quantity.n, unit.s, targetSystem)
       IN  Returned(Num(r.value), r.unit)
  ELSE LET conversion == Lookup(toLowerCase(unit.s))
       IN  IF ~IsPresent(conversion) THEN Returned(NaN, unit.s)
           ELSE Returned(NaN, Val(conversion)[targetSystem].unit)

\* part_004 359-360 (and 87-88)
IngredientLine(ingredient, baseServings, servings, unitSystem) ==
  ConvertValue(ScaleValue(ingredient.quantity, baseServings, servings),
               ingredient.unit, unitSystem)

Ingredient(quantity, unit) == [quantity |-> quantity, unit |-> unit]

\* Ingredients with a quantity and a unit, and without both.
Ingredients ==
  { Ingredient(Num(q), Str(u)) : q \in {50, 20000}, u \in {UnitG, UnitPieces} }
  \cup { Ingredient(Null, Null), Ingredient(Undefined, Undefined) }

\* RecipeDetailPage renders (or exports) the line of one ingredient
ShowIngredient ==
  /\ ~conv.called /\ ~scaled.called /\ ~shown.called
  /\ \E ingredient \in Ingredients, baseServings \in 1..MaxServings,
        servings \in 1..(2 * MaxServings), unitSystem \in Systems :
    /\ shown' = [called |-> TRUE, ingredient |-> ingredient,
                 baseServings |-> baseServings, servings |-> servings,
                 unitSystem |-> unitSystem,
                 result |-> IngredientLine(ingredient, baseServings, servings,
                                           unitSystem)]
    /\ UNCHANGED <<conv, back, scaled, mockVars, serverVars, uiVars>>

InitUnits ==
  /\ conv = NoCall /\ back = NoCall /\ scaled = NoCall /\ shown = NoCall
  /\ mockRecipes = <<>> /\ query = NoCall /\ panel = NoCall /\ app = Unmounted /\ auth = SignedOut /\ recipesPage = NoCall
  /\ recipes = {} /\ response = NoCall /\ admin = NoCall /\ db = EmptyDb

NextUnits ==
  \/ ConvertUnits \/ ConvertBack
  \/ ScaleIngredientQuantity \/ ScaleForMoreServings
  \/ ShowIngredient

SpecUnits == InitUnits /\ [][NextUnits]_vars

Abs(x) == IF x < 0 THEN -x ELSE x
Min(a, b) == IF a < b THEN a ELSE b
Max(a, b) == IF a > b THEN a ELSE b

(***************************************************************************)
(* C1.  For an integer quantity q, convertUnits(q, '°C', 'imperial') is    *)
(* round(q*9/5+32) °F and convertUnits(q, '°F', 'metric') is               *)
(* round((q-32)*5/9) °C; 0 °C gives 32 °F, 100 °C gives 212 °F and 32 °F   *)
(* gives 0 °C.                                                             *)
(***************************************************************************)
C1_TemperatureConverted ==
  (conv.called /\ conv.quantity % 100 = 0) =>
    /\ (conv.unit = UnitDegC /\ conv.targetSystem = "imperial") =>
         /\ conv.result.unit = UnitDegF
         /\ conv.result.value = 100 * ((9 * conv.quantity + 16000 + 250) \div 500)
         /\ (conv.quantity = 0 => conv.result.value = 3200)
         /\ (conv.quantity = 10000 => conv.result.value = 21200)
    /\ (conv.unit = UnitDegF /\ conv.targetSystem = "metric") =>
         /\ conv.result.unit = UnitDegC
         /\ conv.result.value = 100 * ((conv.quantity - 3200 + 90) \div 180)
         /\ (conv.quantity = 3200 => conv.result.value = 0)

(***************************************************************************)
(* C3.  Original statement: for every non-temperature unit of the table,   *)
(* converting q to imperial and the result back to metric returns a value  *)
(* within the rounding tolerance of q: at most 0.1 away when the result is *)
(* >= 1 and at most 0.01 away when it is < 1.                              *)
(***************************************************************************)
NonTemperatureKeys == TableKeys \ {UnitDegC, UnitDegF}

IsRoundTrip ==
  /\ conv.called /\ conv.targetSystem = "imperial"
  /\ back.called /\ back.targetSystem = "metric"

C3_RoundTripWithinTolerance ==
  (IsRoundTrip /\ conv.unit \in NonTemperatureKeys) =>
    Abs(back.result.value - conv.quantity)
      <= (IF back.result.value >= 100 THEN 10 ELSE 1)

(***************************************************************************)
(* C3 as amended.  For g, kg and ml in any spelling (the units whose       *)
(* imperial counterpart converts back to them) the round trip returns the  *)
(* table's unit symbol and a value within                                  *)
(*     t2/2 + b * t1/2 + q/1000                                            *)
(* of q, where b is the multiplier of the conversion back and t1, t2 are   *)
(* the rounding steps (0.01 below 1, 0.1 from 1 on) of the imperial value  *)
(* and of the value returned.                                              *)
(***************************************************************************)
C3_RoundTripBound ==
  (IsRoundTrip /\ toLowerCase(conv.unit) \in {UnitG, UnitKg, UnitMl}) =>
    LET b == conversions[conv.result.unit].metric.value
        t1 == IF conv.result.value >= 100 THEN 10 ELSE 1
        t2 == IF back.result.value >= 100 THEN 10 ELSE 1
        d == Abs(back.result.value - conv.quantity)
    IN  /\ back.result.unit = toLowerCase(conv.unit)
        /\ 2 * d * b.den
             <= t1 * b.num + t2 * b.den + 2 * conv.quantity * (b.den \div 1000)

\* 30 g is 1.1 oz, and 1.1 oz is 31.2 g.
C3_Witness ==
  /\ IsRoundTrip
  /\ conv.unit = UnitG /\ conv.quantity = 3000
  /\ conv.result = [value |-> 110, unit |-> UnitOz]
  /\ back.result = [value |-> 3120, unit |-> UnitG]

(***************************************************************************)
(* C8.  For originalServings > 0, scaleIngredientQuantity returns          *)
(* q * newServings / originalServings rounded by the tier of the scaled    *)
(* value: to 2 decimals below 1, to 1 decimal from 1 and below 10, to an   *)
(* integer from 10 on; (200, 4, 8) gives 400 and (0.5, 4, 6) gives 0.75.   *)
(* Rounded: a multiple of the tier's step at most half a step away.        *)
(***************************************************************************)
C8_ScaledRoundedByTier ==
  scaled.called =>
    LET num == scaled.originalQuantity * scaled.newServings
        den == scaled.originalServings
        step == IF num < 100 * den THEN 1 ELSE IF num < 1000 * den THEN 10 ELSE 100
        r == scaled.result
    IN  /\ r % step = 0
        /\ 2 * Abs(r * den - num) <= step * den
        /\ (scaled.originalQuantity = 20000 /\ den = 4 /\ scaled.newServings = 8)
             => r = 40000
        /\ (scaled.originalQuantity = 50 /\ den = 4 /\ scaled.newServings = 6)
             => r = 75

C8_Witness ==
  /\ scaled.called
  /\ scaled.originalQuantity = 50 /\ scaled.originalServings = 4
  /\ scaled.newServings = 6 /\ scaled.result = 75

(***************************************************************************)
(* C9.  For every recognized non-temperature unit and target system,       *)
(* convertUnits returns the quantity times the table entry's multiplier    *)
(* for that system, rounded to 2 decimals when the converted value is < 1  *)
(* and to 1 decimal otherwise, with the unit label of that entry: kg to    *)
(* imperial gives lb, l to imperial gives pint, pint to metric gives ml.   *)
(***************************************************************************)
C9_GenericConversion ==
  (conv.called /\ toLowerCase(conv.unit) \in NonTemperatureKeys) =>
    LET key == toLowerCase(conv.unit)
        entry == conversions[key][conv.targetSystem]
        exact == Product(conv.quantity, entry.value)
        step == IF exact.whole < 100 THEN 1 ELSE 10
        d == conv.result.value - exact.whole
    IN  /\ conv.result.unit = entry.unit
        /\ conv.result.value % step = 0
        /\ 2 * Abs(d * exact.den - exact.rem) <= step * exact.den
        /\ (key = UnitKg /\ conv.targetSystem = "imperial") => conv.result.unit = UnitLb
        /\ (key = UnitL /\ conv.targetSystem = "imperial") => conv.result.unit = UnitPint
        /\ (key = UnitPint /\ conv.targetSystem = "metric") => conv.result.unit = UnitMl
        /\ (key = UnitKg /\ conv.targetSystem = "imperial" /\ conv.quantity = 100)
             => conv.result.value = 220
        /\ (key = UnitG /\ conv.targetSystem = "imperial" /\ conv.quantity = 100)
             => conv.result.value = 4

\* 1 kg is 2.2 lb.
C9_Witness ==
  /\ conv.called
  /\ conv.unit = UnitKg /\ conv.targetSystem = "imperial" /\ conv.quantity = 100
  /\ conv.result = [value |-> 220, unit |-> UnitLb]

(***************************************************************************)
(* C10.  The unit lookup is case-insensitive: for every key of the table   *)
(* (g, kg, oz, lb, ml, l, fl oz, pint, °C, °F) and every upper/lower-case  *)
(* spelling of it the entry is found, and convertUnits returns the same    *)
(* value and unit as for the table's own spelling.                         *)
(***************************************************************************)
C10_LookupCaseInsensitive ==
  conv.called =>
    \A key \in TableKeys :
      toLowerCase(conv.unit) = toLowerCase(key) =>
        /\ IsPresent(Lookup(toLowerCase(conv.unit)))
        /\ conv.result = convertUnits(conv.quantity, key, conv.targetSystem)

C12_QuantityLessIngredientShown ==
  (shown.called /\ shown.ingredient.quantity.kind \in {"null", "undefined"}
     /\ shown.ingredient.unit.kind \in {"null", "undefined"}) =>
    ~shown.result.threw

(***************************************************************************)
(* C13.  For fixed originalServings > 0 and fixed positive                 *)
(* originalQuantity, scaleIngredientQuantity is non-decreasing in          *)
(* newServings across the three rounding tiers: n1 <= n2 implies           *)
(* scale(q, s, n1) <= scale(q, s, n2).                                     *)
(***************************************************************************)
C13_ScaleMonotone ==
  (scaled.called /\ scaled.more.called /\ scaled.originalQuantity > 0
     /\ scaled.newServings <= scaled.more.newServings) =>
    scaled.result <= scaled.more.result

\* 0.5 for 4 servings is 0.75 for 6 (two decimals) and 2 for 16 (one decimal).
C13_Witness ==
  /\ scaled.called /\ scaled.more.called
  /\ scaled.originalQuantity = 50 /\ scaled.originalServings = 4
  /\ scaled.newServings = 6 /\ scaled.result = 75
  /\ scaled.more.newServings = 16 /\ scaled.more.result = 200

(***************************************************************************)
(* Recipes.  title, description, cuisine, difficulty and each tag are      *)
(* strings.  datePublished is optional; when present it is the sequence of *)
(* the numbers that the "/" of the DD/MM/YYYY string separate, so that     *)
(* split, reverse and join are computed on it.                             *)
(***************************************************************************)

British == <<"B", "r", "i", "t", "i", "s", "h">>
Indian == <<"I", "n", "d", "i", "a", "n">>
Thai == <<"T", "h", "a", "i">>
Easy == <<"E", "a", "s", "y">>
Medium == <<"M", "e", "d", "i", "u", "m">>
Hard == <<"H", "a", "r", "d">>
Quick == <<"q", "u", "i", "c", "k">>
Vegan == <<"v", "e", "g", "a", "n">>

Recipe(id, title, description, cuisine, tags, prep, total, difficulty, date) ==
  [id |-> id, title |-> title, description |-> description, cuisine |-> cuisine,
   tags |-> tags, prepTimeMins |-> prep, totalTimeMins |-> total,
   difficulty |-> difficulty, datePublished |-> date]

\* The recipes of the fixture data.  Recipes 1 and 5 have the same title,
\* recipes 1, 2 and 4 the same totalTimeMins.  Recipe 3 has no datePublished
\* and recipe 4 has one that is no date (31/13/2024).
Dishes ==
  << Recipe(1, <<"P", "i", "e">>, <<"H", "o", "t">>, British, <<Quick>>,
            5, 30, Easy, Some(<<1, 2, 2024>>)),
     Recipe(2, <<"T", "a", "r", "t">>, <<"M", "a", "s", "h">>, British, <<Vegan>>,
            15, 30, Medium, Some(<<15, 1, 2024>>)),
     Recipe(3, <<"D", "a", "l">>, <<"M", "i", "l", "d">>, Indian, <<Quick>>,
            30, 45, Hard, Absent),
     Recipe(4, <<"p", "i", "e">>, <<"C", "o", "l", "d">>, Indian, <<>>,
            15, 30, Easy, Some(<<31, 13, 2024>>)),
     Recipe(5, <<"P", "i", "e">>, <<"Q", "u", "i", "c", "k">>, Thai,
            <<Vegan, Quick>>, 30, 40, Medium, Some(<<10, 12, 2023>>)) >>

MaxRecipes == 3

\* The lists of n different recipes.
ListsOfLength(n) ==
  { [i \in 1..n |-> Dishes[f[i]]] :
      f \in { g \in [1..n -> 1..Len(Dishes)] :
                \A i, j \in 1..n : i # j => g[i] # g[j] } }

RecipeLists == UNION { ListsOfLength(n) : n \in 0..MaxRecipes }

(***************************************************************************)
(* getMockRecipes (src/src/lib/api.ts)                                     *)
(***************************************************************************)

\* NonEmpty with an empty string or array counted as given.
NonEmpty_Present(o) == IsPresent(o)

\* The truthiness of an optional string or array (non-empty).
NonEmpty(o) == IsPresent(o) /\ Len(Val(o)) > 0

\* The truthiness of an optional number.
NonZero(o) == IsPresent(o) /\ Val(o) # 0

\* Array.prototype.includes / some
Contains(list, x) == \E i \in 1..Len(list) : list[i] = x

MatchesSearch(recipe, searchLower) ==
  \/ includes(toLowerCase(recipe.title), searchLower)
  \/ includes(toLowerCase(recipe.description), searchLower)
  \/ \E i \in 1..Len(recipe.tags) : includes(toLowerCase(recipe.tags[i]), searchLower)

\* filters.cuisine!.includes(recipe.cuisine)
MatchesCuisine(recipe, cuisine) == Contains(cuisine, recipe.cuisine)

\* MatchesTags with every requested tag needed (every in place of some).
MatchesTags_Every(recipe, tags) == \A i \in 1..Len(tags) : Contains(recipe.tags, tags[i])

\* filters.tags!.some(tag => recipe.tags.includes(tag))
MatchesTags(recipe, tags) == \E i \in 1..Len(tags) : Contains(recipe.tags, tags[i])

\* recipe.prepTimeMins <= filters.maxPrepTime!
MatchesPrepTime(recipe, maxPrepTime) == recipe.prepTimeMins <= maxPrepTime

\* filters.difficulty!.includes(recipe.difficulty)
MatchesDifficulty(recipe, difficulty) == Contains(difficulty, recipe.difficulty)

\* api.ts 154-187: the filters, applied one after the other
ApplyFilters(list, filters) ==
  IF ~IsPresent(filters) THEN list
  ELSE
    LET f == Val(filters)
        bySearch ==
          IF NonEmpty(f.search)
          THEN SelectSeq(list, LAMBDA r : MatchesSearch(r, toLowerCase(Val(f.search))))
          ELSE list
        byCuisine ==
          IF NonEmpty(f.cuisine)
          THEN SelectSeq(bySearch, LAMBDA r : MatchesCuisine(r, Val(f.cuisine)))
          ELSE bySearch
        byTags ==
          IF NonEmpty(f.tags)
          THEN SelectSeq(byCuisine, LAMBDA r : MatchesTags(r, Val(f.tags)))
          ELSE byCuisine
        byPrepTime ==
          IF NonZero(f.maxPrepTime)
          THEN SelectSeq(byTags, LAMBDA r : MatchesPrepTime(r, Val(f.maxPrepTime)))
          ELSE byTags
    IN  IF NonEmpty(f.difficulty)
        THEN SelectSeq(byPrepTime, LAMBDA r : MatchesDifficulty(r, Val(f.difficulty)))
        ELSE byPrepTime

\* a < b for two strings: the comparison of their code units
RECURSIVE StringLess(_, _)
StringLess(a, b) ==
  IF b = <<>> THEN FALSE
  ELSE IF a = <<>> THEN TRUE
  ELSE IF Head(a) = Head(b) THEN StringLess(Tail(a), Tail(b))
  ELSE CharCode(Head(a)) < CharCode(Head(b))

Reverse(s) == [i \in 1..Len(s) |-> s[Len(s) + 1 - i]]

\* DateOf without the reverse(): day-month-year read as year-month-day.
DateOf_Unreversed(datePublished) ==
  IF ~IsPresent(datePublished) THEN Absent
  ELSE LET ymd == Val(datePublished)
       IN  IF Len(ymd) = 3 /\ ymd[2] \in 1..12 /\ ymd[3] \in 1..31
           THEN Some(372 * ymd[1] + 31 * ymd[2] + ymd[3])
           ELSE Absent

\* new Date(value?.split('/').reverse().join('-') || ''): the time value of
\* the date, as a number of days, or absent (NaN) for an Invalid Date.
DateOf(datePublished) ==
  IF ~IsPresent(datePublished) THEN Absent
  ELSE LET ymd == Reverse(Val(datePublished))
       IN  IF Len(ymd) = 3 /\ ymd[2] \in 1..12 /\ ymd[3] \in 1..31
           THEN Some(372 * ymd[1] + 31 * ymd[2] + ymd[3])
           ELSE Absent

\* aValue < bValue for the values that the sort field selects
FieldLess(field, a, b) ==
  CASE field = "title" -> StringLess(a.title, b.title)
    [] field = "difficulty" -> StringLess(a.difficulty, b.difficulty)
    [] field = "totalTimeMins" -> a.totalTimeMins < b.totalTimeMins
    [] field = "datePublished" ->
         LET aValue == DateOf(a.datePublished)
             bValue == DateOf(b.datePublished)
         IN  IsPresent(aValue) /\ IsPresent(bValue) /\ Val(aValue) < Val(bValue)

\* api.ts 191-204: the function given to Array.prototype.sort
compareFn(sort, a, b) ==
  IF FieldLess(sort.field, a, b) THEN (IF sort.direction = "asc" THEN -1 ELSE 1)
  ELSE IF FieldLess(sort.field, b, a) THEN (IF sort.direction = "asc" THEN 1 ELSE -1)
  ELSE 0

\* StableSort with each element put before the elements that compare equal.
RECURSIVE StableSort_EqualsBefore(_, _)
StableSort_EqualsBefore(list, sort) ==
  IF Len(list) <= 1 THEN list
  ELSE LET n == Len(list)
           x == list[n]
           prefix == StableSort_EqualsBefore(SubSeq(list, 1, n - 1), sort)
           keep == {i \in 1..(n - 1) : compareFn(sort, prefix[i], x) < 0}
           k == IF keep = {} THEN 0 ELSE CHOOSE i \in keep : \A j \in keep : j <= i
       IN  SubSeq(prefix, 1, k) \o <<x>> \o SubSeq(prefix, k + 1, n - 1)

\* The stable sort of list by the comparison of sort: each element goes
\* behind the last element of the sorted prefix that is not greater.
RECURSIVE StableSort(_, _)
StableSort(list, sort) ==
  IF Len(list) <= 1 THEN list
  ELSE LET n == Len(list)
           x == list[n]
           prefix == StableSort(SubSeq(list, 1, n - 1), sort)
           keep == {i \in 1..(n - 1) : compareFn(sort, prefix[i], x) <= 0}
           k == IF keep = {} THEN 0 ELSE CHOOSE i \in keep : \A j \in keep : j <= i
       IN  SubSeq(prefix, 1, k) \o <<x>> \o SubSeq(prefix, k + 1, n - 1)

\* Whether the comparison is a consistent comparison function for the
\* elements of list (ECMAScript, Array.prototype.sort).
ConsistentOn(list, sort) ==
  LET E == {list[i] : i \in 1..Len(list)}
      c(a, b) == compareFn(sort, a, b)
  IN  \A a, b, d \in E :
        /\ c(a, a) = 0
        /\ (c(a, b) = 0) = (c(b, a) = 0)
        /\ (c(a, b) < 0) = (c(b, a) > 0)
        /\ (c(a, b) = 0 /\ c(b, d) = 0) => c(a, d) = 0
        /\ (c(a, b) < 0 /\ c(b, d) < 0) => c(a, d) < 0
        /\ (c(a, b) > 0 /\ c(b, d) > 0) => c(a, d) > 0

Orderings(list) ==
  { [i \in 1..Len(list) |-> list[f[i]]] :
      f \in { g \in [1..Len(list) -> 1..Len(list)] :
                \A i, j \in 1..Len(list) : i # j => g[i] # g[j] } }

\* filteredRecipes.sort(...): the results the sort can leave.  A stable
\* sort; with a comparison that is not consistent the order is
\* implementation-defined.  Strings and numbers are totally ordered by <,
\* so only the comparison of dates, which may be NaN, has to be examined.
SortOutcomes(list, sort) ==
  IF ~IsPresent(sort) THEN {list}
  ELSE IF Val(sort).field # "datePublished" \/ ConsistentOn(list, Val(sort))
  THEN {StableSort(list, Val(sort))}
  ELSE Orderings(list)

\* Array.prototype.slice(start, end) for 0 <= start
Slice(list, start, end) ==
  LET last == IF IsPresent(end) /\ Val(end) < Len(list) THEN Val(end) ELSE Len(list)
  IN  IF start >= last THEN <<>> ELSE SubSeq(list, start + 1, last)

\* api.ts 210-214
Paginate(list, limit, offset) ==
  IF NonZero(offset) \/ NonZero(limit)
  THEN LET start == IF NonZero(offset) THEN Val(offset) ELSE 0
           end == IF NonZero(limit) THEN Some(start + Val(limit)) ELSE Absent
       IN  Slice(list, start, end)
  ELSE list

\* MockResults with the collection filtered from its last recipe to its first.
MockResults_Reversed(collection, filters, sort, limit, offset) ==
  LET filteredRecipes == ApplyFilters(Reverse(collection), filters)
  IN  { [recipes |-> Paginate(sorted, limit, offset), total |-> Len(sorted)] :
          sorted \in SortOutcomes(filteredRecipes, sort) }

\* MockResults with the pagination applied first, to the collection.
MockResults_PaginateFirst(collection, filters, sort, limit, offset) ==
  LET filteredRecipes == ApplyFilters(Paginate(collection, limit, offset), filters)
  IN  { [recipes |-> sorted, total |-> Len(sorted)] :
          sorted \in SortOutcomes(filteredRecipes, sort) }

\* The results getMockRecipes(filters, sort, limit, offset) can return for
\* the collection held in mockRecipes.
MockResults(collection, filters, sort, limit, offset) ==
  LET filteredRecipes == ApplyFilters(collection, filters)
  IN  { [recipes |-> Paginate(sorted, limit, offset), total |-> Len(sorted)] :
          sorted \in SortOutcomes(filteredRecipes, sort) }

\* QueryOutcomes with filteredRecipes being mockRecipes itself, no copy: a
\* sort without filters then sorts the collection in place.
QueryOutcomes_NoCopy(collection, args) ==
  LET filteredRecipes == ApplyFilters(collection, args.filters)
  IN  { [stored |-> IF IsPresent(args.filters) THEN collection ELSE sorted,
         result |-> [recipes |-> Paginate(sorted, args.limit, args.offset),
                     total |-> Len(sorted)]] :
          sorted \in SortOutcomes(filteredRecipes, args.sort) }

\* api.ts 151-216 on the array of mockRecipes: what the array holds after
\* the call, and what the call returns.  filteredRecipes is a copy
\* ([...mockRecipes]); filter and slice return new arrays and the sort
\* works in place on the copy.
QueryOutcomes(collection, args) ==
  { [stored |-> collection, result |-> result] :
      result \in MockResults(collection, args.filters, args.sort,
                             args.limit, args.offset) }

(***************************************************************************)
(* The calls of getMockRecipes.                                            *)
(***************************************************************************)

Filters(search, cuisine, tags, maxPrepTime, difficulty) ==
  [search |-> search, cuisine |-> cuisine, tags |-> tags,
   maxPrepTime |-> maxPrepTime, difficulty |-> difficulty]

Searches == {Absent, Some(<<>>), Some(<<"p", "i", "e">>), Some(<<"Q", "U", "I", "C", "K">>)}
CuisineSets == {Absent, Some(<<>>), Some(<<British>>), Some(<<British, Indian>>)}
TagSets == {Absent, Some(<<>>), Some(<<Quick>>), Some(<<Vegan, Quick>>)}
PrepTimeBounds == {Absent, Some(0), Some(15)}
DifficultySets == {Absent, Some(<<>>), Some(<<Hard, Easy>>)}

\* The filters: none, every combination of search, cuisine and tags, every
\* combination of cuisine, maxPrepTime and difficulty, and one with all five.
AllFilters ==
  {Absent}
  \cup { Some(Filters(s, c, t, Absent, Absent)) :
           s \in Searches, c \in CuisineSets, t \in TagSets }
  \cup { Some(Filters(Absent, c, Absent, m, d)) :
           c \in CuisineSets, m \in PrepTimeBounds, d \in DifficultySets }
  \cup { Some(Filters(Some(<<"p", "i", "e">>), Some(<<British, Indian>>),
                      Some(<<Vegan, Quick>>), Some(15), Some(<<Hard, Easy>>))) }

NoFilters == Some(Filters(Absent, Absent, Absent, Absent, Absent))
CuisineFilters == Some(Filters(Absent, Some(<<British, Indian>>), Absent, Absent, Absent))

SomeFilters ==
  { Absent, NoFilters, CuisineFilters,
    Some(Filters(Absent, Absent, Some(<<Quick>>), Some(15), Absent)) }

SortFields == {"title", "totalTimeMins", "datePublished", "difficulty"}
Sorts == {Absent} \cup { Some([field |-> f, direction |-> d]) :
                           f \in SortFields, d \in {"asc", "desc"} }

MaxLimit == 2
MaxOffset == 3
Limits == {Absent} \cup {Some(n) : n \in 0..MaxLimit}
Offsets == {Absent} \cup {Some(n) : n \in 0..MaxOffset}

Args(filters, sort, limit, offset) ==
  [filters |-> filters, sort |-> sort, limit |-> limit, offset |-> offset]

\* The arguments of the calls: every filter alone, some filters with every
\* sort, and some filters and sorts with every limit and offset.
QueryArgs ==
  { Args(f, Absent, Absent, Absent) : f \in AllFilters }
  \cup { Args(f, s, Absent, Absent) : f \in SomeFilters, s \in Sorts }
  \cup { Args(f, s, l, o) :
           f \in {Absent, NoFilters, CuisineFilters},
           s \in {Absent, Some([field |-> "totalTimeMins", direction |-> "asc"])},
           l \in Limits, o \in Offsets }

\* RecipeFilters.tsx 25-32: toggleArrayFilter(key, value) on the filters
\* of the panel, and the filters it hands to onFiltersChange
toggleArrayFilter(filters, key, value) ==
  LET currentArray == IF NonEmpty(filters[key]) THEN Val(filters[key]) ELSE <<>>
      newArray == IF Contains(currentArray, value)
                  THEN SelectSeq(currentArray, LAMBDA item : item # value)
                  ELSE Append(currentArray, value)
  IN  [filters EXCEPT ![key] = IF Len(newArray) > 0 THEN Some(newArray) ELSE Absent]

\* The filters the panel is given, some with an empty list in a field.
PanelFilters ==
  { Filters(Absent, Absent, Absent, Absent, Absent),
    Filters(Absent, Some(<<British>>), Some(<<>>), Absent, Absent),
    Filters(Absent, Some(<<British, Indian>>), Absent, Absent, Absent),
    Filters(Some(<<>>), Some(<<>>), Some(<<Quick>>), Absent, Some(<<Easy>>)) }

\* The buttons of the panel.
PanelButtons ==
  { [key |-> "cuisine", value |-> v] : v \in {British, Indian} }
  \cup { [key |-> "tags", value |-> v] : v \in {Quick, Vegan} }
  \cup { [key |-> "difficulty", value |-> v] : v \in {Easy, Hard} }

\* A click on a button of the filter panel
ToggleArrayFilter ==
  /\ ~panel.called /\ ~query.called /\ mockRecipes = <<>>
  /\ \E filters \in PanelFilters, button \in PanelButtons :
       panel' = [called |-> TRUE, filters |-> filters, key |-> button.key,
                 value |-> button.value,
                 result |-> toggleArrayFilter(filters, button.key, button.value)]
  /\ UNCHANGED <<mockVars, unitVars, serverVars, app, auth, recipesPage>>

\* The arguments of the calls of getMockRecipes: after a click on the
\* panel, the filters the panel handed on.
CallArgs ==
  IF panel.called THEN {Args(Some(panel.result), Absent, Absent, Absent)}
  ELSE QueryArgs

\* api.ts 10-17: the import at module load fills mockRecipes
LoadMockData ==
  /\ mockRecipes = <<>> /\ ~query.called
  /\ \E data \in RecipeLists : mockRecipes' = data
  /\ UNCHANGED <<query, unitVars, serverVars, uiVars>>

\* api.ts 134-217: getMockRecipes(filters, sort, limit, offset).  An empty
\* mockRecipes is loaded first; when that import fails the result is empty.
GetMockRecipes ==
  /\ ~query.called
  /\ \E args \in CallArgs :
       \/ /\ mockRecipes = <<>>
          /\ mockRecipes' = <<>>
          /\ query' = [called |-> TRUE, args |-> args, loaded |-> FALSE,
                       data |-> <<>>,
                       result |-> [recipes |-> <<>>, total |-> 0],
                       again |-> NoCall]
       \/ \E data \in (IF mockRecipes = <<>> THEN RecipeLists ELSE {mockRecipes}) :
            \E outcome \in QueryOutcomes(data, args) :
              /\ mockRecipes' = outcome.stored
              /\ query' = [called |-> TRUE, args |-> args, loaded |-> TRUE,
                           data |-> data, result |-> outcome.result,
                           again |-> NoCall]
  /\ UNCHANGED <<unitVars, serverVars, uiVars>>

\* The arguments of a later call: the whole collection, as it is and sorted.
LaterArgs ==
  { Args(Absent, Absent, Absent, Absent),
    Args(Absent, Some([field |-> "totalTimeMins", direction |-> "desc"]), Absent, Absent) }

\* getMockRecipes called once more.  An empty mockRecipes is imported
\* again, from the same module.
GetMockRecipesAgain ==
  /\ query.called /\ query.loaded /\ ~query.again.called
  /\ \E args \in LaterArgs :
       \E outcome \in QueryOutcomes(IF mockRecipes = <<>> THEN query.data
                                     ELSE mockRecipes, args) :
         /\ mockRecipes' = outcome.stored
         /\ query' = [query EXCEPT !.again = [called |-> TRUE, args |-> args,
                                              result |-> outcome.result]]
  /\ UNCHANGED <<unitVars, serverVars, uiVars>>

InitMock ==
  /\ conv = NoCall /\ back = NoCall /\ scaled = NoCall /\ shown = NoCall
  /\ mockRecipes = <<>> /\ query = NoCall /\ panel = NoCall /\ app = Unmounted /\ auth = SignedOut /\ recipesPage = NoCall
  /\ recipes = {} /\ response = NoCall /\ admin = NoCall /\ db = EmptyDb

NextMock == ToggleArrayFilter \/ LoadMockData \/ GetMockRecipes \/ GetMockRecipesAgain

SpecMock == InitMock /\ [][NextMock]_vars

Elements(list) == {list[i] : i \in 1..Len(list)}

\* A call that returned recipes of the loaded collection, all of them when
\* it was given no limit and no offset.
Queried == query.called /\ query.loaded
Unpaged == ~IsPresent(query.args.limit) /\ ~IsPresent(query.args.offset)

\* The predicates of the spec's filter fields.  A field counts as present
\* when it is given and not empty.
SearchHolds(r, f) ==
  NonEmpty(f.search) =>
    LET term == toLowerCase(Val(f.search))
    IN  \E target \in {r.title, r.description} \cup Elements(r.tags) :
          includes(toLowerCase(target), term)
CuisineHolds(r, f) == NonEmpty(f.cuisine) => r.cuisine \in Elements(Val(f.cuisine))
TagsHold(r, f) == NonEmpty(f.tags) => Elements(r.tags) \cap Elements(Val(f.tags)) # {}
DifficultyHolds(r, f) ==
  NonEmpty(f.difficulty) => r.difficulty \in Elements(Val(f.difficulty))

(***************************************************************************)
(* C2.  The filter stage returns exactly the recipes that satisfy every    *)
(* present predicate: search is a case-insensitive substring of the title, *)
(* the description or some tag; the cuisine is one of the requested        *)
(* cuisines; at least one tag is among the requested tags; the difficulty  *)
(* is one of the requested difficulties.  For A(British,[quick]),          *)
(* B(British,[vegan]), C(Indian,[quick]) the filter {cuisine:[British],    *)
(* tags:[quick]} returns exactly A.  (Calls without maxPrepTime.)          *)
(***************************************************************************)
C2_FilterExact ==
  (Queried /\ Unpaged /\ IsPresent(query.args.filters)
     /\ ~IsPresent(Val(query.args.filters).maxPrepTime)) =>
    LET f == Val(query.args.filters)
        expected == { r \in Elements(mockRecipes) :
                        /\ SearchHolds(r, f) /\ CuisineHolds(r, f)
                        /\ TagsHold(r, f) /\ DifficultyHolds(r, f) }
    IN  /\ Elements(query.result.recipes) = expected
        /\ Len(query.result.recipes) = Cardinality(expected)

IsExampleQuery ==
  /\ Queried /\ Unpaged
  /\ mockRecipes = <<Dishes[1], Dishes[2], Dishes[3]>>
  /\ query.args.filters
       = Some(Filters(Absent, Some(<<British>>), Some(<<Quick>>), Absent, Absent))

C2_Witness == IsExampleQuery /\ query.result.recipes = <<Dishes[1]>>

(***************************************************************************)
(* C5.  Sorting by datePublished orders a recipe whose datePublished is    *)
(* missing or unparseable as if it had the earliest possible date: in asc  *)
(* order it precedes every recipe with a well-formed date, in desc order   *)
(* it follows them, and the recipes with well-formed dates are in          *)
(* chronological order among themselves.                                   *)
(***************************************************************************)
DateKey(r) ==
  LET d == DateOf(r.datePublished) IN IF IsPresent(d) THEN Val(d) ELSE 0

C5_BadDateSortsEarliest ==
  (Queried /\ Unpaged /\ IsPresent(query.args.sort)
     /\ Val(query.args.sort).field = "datePublished") =>
    LET out == query.result.recipes
    IN  \A i, j \in 1..Len(out) :
          i < j =>
            IF Val(query.args.sort).direction = "asc"
            THEN DateKey(out[i]) <= DateKey(out[j])
            ELSE DateKey(out[i]) >= DateKey(out[j])

(***************************************************************************)
(* C6.  For every limit >= 0 and offset >= 0, each possibly absent: when   *)
(* neither is given the pagination stage returns its input; otherwise it   *)
(* returns exactly the elements at the positions [offset, offset + limit)  *)
(* with offset defaulting to 0, up to the end only when limit is absent.   *)
(* (Calls without filters and sort, whose pagination input is the          *)
(* collection.)                                                            *)
(***************************************************************************)
C6_PaginationSlice ==
  (Queried /\ ~IsPresent(query.args.filters) /\ ~IsPresent(query.args.sort)) =>
    LET limit == query.args.limit
        offset == query.args.offset
        from == IF IsPresent(offset) THEN Val(offset) ELSE 0
        positions ==
          IF IsPresent(limit)
          THEN {i \in 1..Len(mockRecipes) : from < i /\ i <= from + Val(limit)}
          ELSE {i \in 1..Len(mockRecipes) : from < i}
        out == query.result.recipes
    IN  /\ Len(out) = Cardinality(positions)
        /\ \A k \in 1..Len(out) : from + k \in positions /\ out[k] = mockRecipes[from + k]

(***************************************************************************)
(* C7.  Whenever maxPrepTime is present with a bound b >= 0 (b = 0         *)
(* included), every returned recipe has prepTimeMins <= b and every recipe *)
(* with prepTimeMins <= b that passes the other predicates is returned.    *)
(***************************************************************************)
C7_MaxPrepTimeInclusive ==
  (Queried /\ Unpaged /\ IsPresent(query.args.filters)
     /\ IsPresent(Val(query.args.filters).maxPrepTime)) =>
    LET f == Val(query.args.filters)
        b == Val(f.maxPrepTime)
    IN  Elements(query.result.recipes)
          = { r \in Elements(mockRecipes) :
                /\ r.prepTimeMins <= b
                /\ SearchHolds(r, f) /\ CuisineHolds(r, f)
                /\ TagsHold(r, f) /\ DifficultyHolds(r, f) }

(***************************************************************************)
(* C14.  For the sort fields title and totalTimeMins and either direction, *)
(* the sort stage returns a permutation of its input that is               *)
(* non-decreasing by the field for asc and non-increasing for desc, and    *)
(* recipes whose field values are equal keep their relative input order.   *)
(* (Calls without filters and pagination, whose sort input is the          *)
(* collection.)                                                            *)
(***************************************************************************)
Unfiltered == query.args.filters \in {Absent, NoFilters}

KeyLess(field, a, b) ==
  IF field = "title" THEN StringLess(a.title, b.title)
  ELSE a.totalTimeMins < b.totalTimeMins

Position(list, r) == CHOOSE i \in 1..Len(list) : list[i] = r

C14_SortOrderedAndStable ==
  (Queried /\ Unpaged /\ Unfiltered /\ IsPresent(query.args.sort)
     /\ Val(query.args.sort).field \in {"title", "totalTimeMins"}) =>
    LET out == query.result.recipes
        field == Val(query.args.sort).field
        asc == Val(query.args.sort).direction = "asc"
    IN  /\ Len(out) = Len(mockRecipes)
        /\ Elements(out) = Elements(mockRecipes)
        /\ \A i, j \in 1..Len(out) :
             i < j =>
               /\ IF asc THEN ~KeyLess(field, out[j], out[i])
                         ELSE ~KeyLess(field, out[i], out[j])
               /\ (~KeyLess(field, out[i], out[j]) /\ ~KeyLess(field, out[j], out[i]))
                    => Position(mockRecipes, out[i]) < Position(mockRecipes, out[j])

\* Three recipes of 30 minutes, sorted desc, keep their order.
C14_Witness ==
  /\ Queried /\ Unpaged /\ Unfiltered
  /\ mockRecipes = <<Dishes[4], Dishes[2], Dishes[1]>>
  /\ query.args.sort = Some([field |-> "totalTimeMins", direction |-> "desc"])
  /\ query.result.recipes = <<Dishes[4], Dishes[2], Dishes[1]>>

(***************************************************************************)
(* C15.  Sorting by datePublished orders recipes chronologically (by year, *)
(* then month, then day of the DD/MM/YYYY string), not by the raw string:  *)
(* for well-formed dates, desc puts the later recipe first and asc the     *)
(* earlier one first; 01/02/2024 comes before 15/01/2024 in desc order.    *)
(***************************************************************************)
WellFormedDate(r) ==
  /\ IsPresent(r.datePublished)
  /\ LET dmy == Val(r.datePublished)
     IN  Len(dmy) = 3 /\ dmy[1] \in 1..31 /\ dmy[2] \in 1..12

Earlier(a, b) ==
  LET x == Val(a.datePublished)
      y == Val(b.datePublished)
  IN  \/ x[3] < y[3]
      \/ x[3] = y[3] /\ x[2] < y[2]
      \/ x[3] = y[3] /\ x[2] = y[2] /\ x[1] < y[1]

C15_DateSortChronological ==
  (Queried /\ Unpaged /\ Unfiltered /\ IsPresent(query.args.sort)
     /\ Val(query.args.sort).field = "datePublished"
     /\ \A r \in Elements(mockRecipes) : WellFormedDate(r)) =>
    LET out == query.result.recipes
    IN  /\ Elements(out) = Elements(mockRecipes)
        /\ \A i, j \in 1..Len(out) :
             i < j =>
               IF Val(query.args.sort).direction = "asc"
               THEN ~Earlier(out[j], out[i])
               ELSE ~Earlier(out[i], out[j])

\* 15/01/2024 then 01/02/2024, sorted desc: 01/02/2024 first.
C15_Witness ==
  /\ Queried /\ Unpaged /\ Unfiltered
  /\ mockRecipes = <<Dishes[2], Dishes[1]>>
  /\ query.args.sort = Some([field |-> "datePublished", direction |-> "desc"])
  /\ query.result.recipes = <<Dishes[1], Dishes[2]>>

(***************************************************************************)
(* C16.  Filtering is order-preserving: for every input list and filter    *)
(* spec, the output of the filter stage is a subsequence of the input: any *)
(* two matching recipes appear in the same relative order as in the input, *)
(* and no recipe is duplicated or altered.  (Calls without sort and        *)
(* pagination, whose result is the output of the filter stage.)            *)
(***************************************************************************)
C16_FilterKeepsOrder ==
  (Queried /\ Unpaged /\ ~IsPresent(query.args.sort)) =>
    LET out == query.result.recipes
    IN  /\ \A i \in 1..Len(out) : out[i] \in Elements(mockRecipes)
        /\ \A i, j \in 1..Len(out) :
             i < j => Position(mockRecipes, out[i]) < Position(mockRecipes, out[j])

\* Of Pie, Dal, Tart the British ones are Pie, Tart, in that order.
C16_Witness ==
  /\ Queried /\ Unpaged /\ ~IsPresent(query.args.sort)
  /\ mockRecipes = <<Dishes[1], Dishes[3], Dishes[2]>>
  /\ query.args.filters
       = Some(Filters(Absent, Some(<<British>>), Absent, Absent, Absent))
  /\ query.result.recipes = <<Dishes[1], Dishes[2]>>

(***************************************************************************)
(* C17.  getMockRecipes applies filter, then sort, then pagination, and    *)
(* the total it returns is the number of recipes that pass the filter,     *)
(* counted before pagination: total does not depend on limit, offset and   *)
(* sort, and the page has at most total elements.  The page holds          *)
(* recipes that pass the filter, as many as the slice of the filtered list *)
(* has, and with a sort by totalTimeMins asc from offset 0 they are the    *)
(* first of the filtered recipes in that order.                            *)
(***************************************************************************)
PrepTimeHolds(r, f) ==
  IsPresent(f.maxPrepTime) => r.prepTimeMins <= Val(f.maxPrepTime)

Passing ==
  IF ~IsPresent(query.args.filters) THEN Elements(mockRecipes)
  ELSE LET f == Val(query.args.filters)
       IN  { r \in Elements(mockRecipes) :
               /\ SearchHolds(r, f) /\ CuisineHolds(r, f) /\ TagsHold(r, f)
               /\ DifficultyHolds(r, f) /\ PrepTimeHolds(r, f) }

C17_TotalBeforePagination ==
  (Queried /\ (IsPresent(query.args.filters)
                 => Val(query.args.filters).maxPrepTime # Some(0))) =>
    LET page == query.result.recipes
        total == query.result.total
        limit == query.args.limit
        from == IF IsPresent(query.args.offset) THEN Val(query.args.offset) ELSE 0
        rest == Max(total - from, 0)
    IN  /\ total = Cardinality(Passing)
        /\ Len(page) <= total
        /\ Elements(page) \subseteq Passing
        /\ ~IsPresent(limit) => Len(page) = rest
        /\ (IsPresent(limit) /\ Val(limit) > 0) => Len(page) = Min(Val(limit), rest)
        /\ (query.args.sort = Some([field |-> "totalTimeMins", direction |-> "asc"])
              /\ from = 0) =>
             \A p \in Elements(page), q \in Passing \ Elements(page) :
               p.totalTimeMins <= q.totalTimeMins

\* Of Pie (Thai), Dal (45 min), Pie (30 min) filtered by cuisine and sorted
\* by time, the first page of one is Pie (30 min), of a total of 2.
C17_Witness ==
  /\ Queried
  /\ mockRecipes = <<Dishes[5], Dishes[3], Dishes[1]>>
  /\ query.args = Args(CuisineFilters,
                       Some([field |-> "totalTimeMins", direction |-> "asc"]),
                       Some(1), Absent)
  /\ query.result = [recipes |-> <<Dishes[1]>>, total |-> 2]

(***************************************************************************)
(* C18.  Queries do not mutate their input: after any sequence of          *)
(* getMockRecipes calls the loaded collection holds the same recipes in    *)
(* the same order as when it was loaded, and the result of a query depends *)
(* only on its own arguments, not on earlier queries.  query.data is the   *)
(* collection as the first call found or loaded it.                        *)
(***************************************************************************)
C18_QueriesDoNotMutate ==
  Queried =>
    /\ mockRecipes = query.data
    /\ query.again.called =>
         LET a == query.again.args
         IN  query.again.result
               \in MockResults(query.data, a.filters, a.sort, a.limit, a.offset)

\* Tart, Pie sorted by title is Pie, Tart; the next call finds Tart, Pie.
C18_Witness ==
  /\ Queried /\ query.again.called
  /\ query.data = <<Dishes[2], Dishes[1]>>
  /\ query.args = Args(Absent, Some([field |-> "title", direction |-> "asc"]),
                       Absent, Absent)
  /\ query.result.recipes = <<Dishes[1], Dishes[2]>>
  /\ query.again.args = Args(Absent, Absent, Absent, Absent)
  /\ query.again.result.recipes = <<Dishes[2], Dishes[1]>>
  /\ mockRecipes = <<Dishes[2], Dishes[1]>>

(***************************************************************************)
(* GET /api/public/recipes (src/api/public/recipes.js) and the stored      *)
(* query get_published_recipes of the schema.                              *)
(***************************************************************************)

\* A row of the recipes table, with the slugs of its tags (recipe_tags
\* joined with tags).  date_published is a DATE or NULL.  Recipes 2 and 5
\* are featured; created_at is the order of insertion.
Row(dish, is_published) ==
  [id |-> dish.id, title |-> dish.title, description |-> dish.description,
   cuisine |-> dish.cuisine, difficulty |-> dish.difficulty,
   prep_time_mins |-> dish.prepTimeMins, total_time_mins |-> dish.totalTimeMins,
   date_published |-> DateOf(dish.datePublished), tags |-> dish.tags,
   is_published |-> is_published, is_featured |-> dish.id \in {2, 5},
   created_at |-> dish.id, slug |-> dish.id, image_url |-> Absent]

\* The tables: each recipe of the fixture data is published, unpublished
\* or not in the table.
Tables ==
  { { Row(Dishes[i], pub[i] = "published") :
        i \in {j \in 1..Len(Dishes) : pub[j] # "none"} } :
      pub \in [1..Len(Dishes) -> {"none", "published", "unpublished"}] }

\* text ILIKE '%' || pattern || '%' (a pattern without wildcards)
ILike(text, pattern) == includes(toLowerCase(text), toLowerCase(pattern))

\* ORDER BY is_featured DESC, created_at DESC
Before(a, b) ==
  \/ a.is_featured /\ ~b.is_featured
  \/ a.is_featured = b.is_featured /\ a.created_at > b.created_at

RECURSIVE Ordered(_)
Ordered(rows) ==
  IF rows = {} THEN <<>>
  ELSE LET first == CHOOSE r \in rows : \A o \in rows \ {r} : Before(r, o)
       IN  <<first>> \o Ordered(rows \ {first})

\* The WHERE clause without r.is_published = true.
Selected_All(table, search_query, tag_filter, cuisine_filter, difficulty_filter) ==
  { r \in table :
      /\ ~IsPresent(search_query)
           \/ ILike(r.title, Val(search_query))
           \/ ILike(r.description, Val(search_query))
      /\ ~IsPresent(cuisine_filter) \/ r.cuisine = Val(cuisine_filter)
      /\ ~IsPresent(difficulty_filter) \/ r.difficulty = Val(difficulty_filter)
      /\ ~IsPresent(tag_filter) \/ Contains(r.tags, Val(tag_filter)) }

\* The WHERE clause of get_published_recipes; a NULL parameter is absent.
Selected(table, search_query, tag_filter, cuisine_filter, difficulty_filter) ==
  { r \in table :
      /\ r.is_published
      /\ ~IsPresent(search_query)
           \/ ILike(r.title, Val(search_query))
           \/ ILike(r.description, Val(search_query))
      /\ ~IsPresent(cuisine_filter) \/ r.cuisine = Val(cuisine_filter)
      /\ ~IsPresent(difficulty_filter) \/ r.difficulty = Val(difficulty_filter)
      /\ ~IsPresent(tag_filter) \/ Contains(r.tags, Val(tag_filter)) }

\* get_published_recipes(...): the rows, or an error for a negative LIMIT
get_published_recipes(table, search_query, tag_filter, cuisine_filter, difficulty_filter, limit_count, offset_count) ==
  IF limit_count < 0 \/ offset_count < 0 THEN [error |-> TRUE, data |-> <<>>]
  ELSE [error |-> FALSE,
        data |-> Slice(Ordered(Selected(table, search_query, tag_filter,
                                        cuisine_filter, difficulty_filter)),
                       offset_count, Some(offset_count + limit_count))]

\* A query parameter that is read as a number: digits, or other text.
Digits(n) == [text |-> "digits", n |-> n]
OtherText == [text |-> "other"]

\* parseInt(text): the number, or absent for NaN
parseInt(param) == IF param.text = "digits" THEN Some(param.n) ELSE Absent

\* x || fallback for an optional number (NaN and 0 are falsy)
OrNumber(o, fallback) == IF NonZero(o) THEN Val(o) ELSE fallback

\* x || null for an optional string
OrNull(o) == IF NonEmpty(o) THEN o ELSE Absent

DefaultLimit == 20
MaxPageSize == 100

\* recipes.js 30-38: the pagination parameters the handler computes from
\* the limit and page of the query string
PageOf(req) ==
  LET limit == IF IsPresent(req.limit) THEN Val(req.limit) ELSE Digits(DefaultLimit)
      page == IF IsPresent(req.page) THEN Val(req.page) ELSE Digits(1)
      limitNum == Min(OrNumber(parseInt(limit), DefaultLimit), MaxPageSize)
      pageNum == Max(OrNumber(parseInt(page), 1), 1)
  IN  [limitNum |-> limitNum, pageNum |-> pageNum, offset |-> (pageNum - 1) * limitNum]

\* recipes.js 14-144: the responses of the handler to a request.  The
\* count query with a tag filter passes a query where a list is expected:
\* it may fail, and the handler goes on without the count.
HandlerResponses(table, req) ==
  IF req.method # "GET" THEN {[status |-> 405]}
  ELSE
    LET limitNum == PageOf(req).limitNum
        pageNum == PageOf(req).pageNum
        offset == PageOf(req).offset
        rpc == get_published_recipes(table, OrNull(req.q), OrNull(req.tag),
                                     OrNull(req.cuisine), OrNull(req.difficulty),
                                     limitNum, offset)
        counted == Cardinality(Selected(table, OrNull(req.q), OrNull(req.tag),
                                        OrNull(req.cuisine), OrNull(req.difficulty)))
        totalCounts == IF NonEmpty(req.tag) THEN {counted, 0} ELSE {counted}
        filteredRecipes ==
          IF req.featured THEN SelectSeq(rpc.data, LAMBDA r : r.is_featured)
          ELSE rpc.data
    IN  IF rpc.error THEN {[status |-> 500]}
        ELSE { [status |-> 200, recipes |-> filteredRecipes,
                page |-> pageNum, limit |-> limitNum, offset |-> offset,
                total |-> IF totalCount # 0 THEN totalCount ELSE Len(filteredRecipes)] :
                 totalCount \in totalCounts }

\* Array.prototype.join(',')
RECURSIVE Join(_)
Join(list) ==
  IF list = <<>> THEN <<>>
  ELSE IF Len(list) = 1 THEN list[1]
  ELSE list[1] \o <<",">> \o Join(Tail(list))

\* docs/integration.md 71-81: the request getRecipes(filters, sort, limit,
\* offset) sends to the endpoint
BuildRequest(args) ==
  LET given == IsPresent(args.filters)
      f == Val(args.filters)
  IN  [method |-> "GET",
       q |-> IF given /\ NonEmpty(f.search) THEN f.search ELSE Absent,
       cuisine |-> IF given /\ NonEmpty(f.cuisine) THEN Some(Join(Val(f.cuisine))) ELSE Absent,
       tag |-> IF given /\ NonEmpty(f.tags) THEN Some(Join(Val(f.tags))) ELSE Absent,
       difficulty |-> IF given /\ NonEmpty(f.difficulty)
                      THEN Some(Join(Val(f.difficulty))) ELSE Absent,
       limit |-> IF NonZero(args.limit) THEN Some(Digits(Val(args.limit))) ELSE Absent,
       page |-> IF NonZero(args.offset)
                THEN (IF NonZero(args.limit)
                      THEN Some(Digits((Val(args.offset) \div Val(args.limit)) + 1))
                      ELSE Some(OtherText))
                ELSE Absent,
       featured |-> FALSE]

\* Requests that no getRecipes call builds.
OtherRequests ==
  { [BuildRequest(Args(Absent, Absent, Absent, Absent)) EXCEPT !.method = "POST"],
    [BuildRequest(Args(Absent, Absent, Absent, Absent)) EXCEPT !.featured = TRUE],
    [BuildRequest(Args(Absent, Absent, Absent, Absent)) EXCEPT !.limit = Some(Digits(-1))] }
  \cup { [BuildRequest(Args(Absent, Absent, Absent, Absent)) EXCEPT
            !.limit = limit, !.page = page] :
           limit \in {Some(OtherText), Some(Digits(0)), Some(Digits(1000))},
           page \in {Absent, Some(Digits(0)), Some(Digits(-3)), Some(Digits(2))} }

\* GET /api/public/recipes
PublicRecipes ==
  /\ ~response.called
  /\ \/ \E args \in QueryArgs :
          \E r \in HandlerResponses(recipes, BuildRequest(args)) :
            response' = [called |-> TRUE, built |-> TRUE, args |-> args,
                         req |-> BuildRequest(args), res |-> r]
     \/ \E req \in OtherRequests :
          \E r \in HandlerResponses(recipes, req) :
            response' = [called |-> TRUE, built |-> FALSE, req |-> req, res |-> r]
  /\ UNCHANGED <<recipes, admin, db, unitVars, mockVars, uiVars>>

InitServer ==
  /\ conv = NoCall /\ back = NoCall /\ scaled = NoCall /\ shown = NoCall
  /\ mockRecipes = <<>> /\ query = NoCall /\ panel = NoCall /\ app = Unmounted /\ auth = SignedOut /\ recipesPage = NoCall
  /\ recipes \in Tables /\ response = NoCall /\ admin = NoCall /\ db = EmptyDb

NextServer == PublicRecipes

SpecServer == InitServer /\ [][NextServer]_vars

(***************************************************************************)
(* C4.  For the same collection of published recipes and the same filter   *)
(* and sort specification, the server-side query returns the same recipes  *)
(* as the in-memory filter and sort of getMockRecipes, and in the same     *)
(* order when a sort is given.                                             *)
(***************************************************************************)
RECURSIVE ByInsertion(_)
ByInsertion(rows) ==
  IF rows = {} THEN <<>>
  ELSE LET first == CHOOSE r \in rows : \A o \in rows : r.created_at <= o.created_at
       IN  <<Dishes[first.id]>> \o ByInsertion(rows \ {first})

Ids(list) == [i \in 1..Len(list) |-> list[i].id]

C4_ServerMatchesMock ==
  (response.called /\ response.built /\ response.res.status = 200
     /\ ~IsPresent(response.args.limit) /\ ~IsPresent(response.args.offset)) =>
    LET published == ByInsertion({r \in recipes : r.is_published})
        a == response.args
    IN  \E m \in MockResults(published, a.filters, a.sort, a.limit, a.offset) :
          IF IsPresent(a.sort)
          THEN Ids(response.res.recipes) = Ids(m.recipes)
          ELSE Elements(Ids(response.res.recipes)) = Elements(Ids(m.recipes))

(***************************************************************************)
(* The admin endpoints (src/unnamed/part_000 sign-upload,                  *)
(* src/unnamed/part_001 create-recipe, src/api/admin/publish-toggle.js     *)
(* publish-toggle and update-recipe, src/api/admin/delete-recipe.js).      *)
(* Each handler checks the method, the Authorization header, the user of   *)
(* the token and the profile of the user, and then works on the tables.    *)
(***************************************************************************)

\* auth.users: the users that the tokens in use resolve to.  The token
\* "expired" resolves to no user.
Sessions ==
  [t \in {"tok-admin", "tok-moderator", "tok-member", "tok-stranger"} |->
     CASE t = "tok-admin" -> "alice" [] t = "tok-moderator" -> "mo"
       [] t = "tok-member" -> "uma" [] t = "tok-stranger" -> "sam"]

Tokens == DOMAIN Sessions \cup {"expired"}

\* profiles: sam has no row.
profiles ==
  [u \in {"alice", "mo", "uma"} |->
     [is_admin |-> u = "alice", is_moderator |-> u = "mo"]]

\* An Authorization header: scheme, a space, the token.
Header(scheme, token) == [scheme |-> scheme, token |-> token]

AuthHeaders ==
  { Absent, Some(Header("Basic", "tok-admin")), Some(Header("bearer", "tok-admin")) }
  \cup { Some(Header("Bearer", t)) : t \in Tokens }

\* supabase.auth.getUser(token): the user, or absent with an error
getUser(token) == IF token \in DOMAIN Sessions THEN Some(Sessions[token]) ELSE Absent

\* from('profiles').select(...).eq('id', user.id).single(): the row, or
\* absent with an error when there is none
ProfileOf(user) == IF user \in DOMAIN profiles THEN Some(profiles[user]) ELSE Absent

\* Authorize with the check of the profile left out.
Authorize_AnyUser(authorization, adminOnly) ==
  IF ~IsPresent(authorization) \/ Val(authorization).scheme # "Bearer" THEN 401
  ELSE IF ~IsPresent(getUser(Val(authorization).token)) THEN 401
  ELSE 0

\* Authorize with the check of delete-recipe left as that of the others.
Authorize_ModeratorDeletes(authorization, adminOnly) ==
  IF ~IsPresent(authorization) \/ Val(authorization).scheme # "Bearer" THEN 401
  ELSE LET user == getUser(Val(authorization).token)
       IN  IF ~IsPresent(user) THEN 401
           ELSE LET profile == ProfileOf(Val(user))
                IN  IF ~IsPresent(profile) THEN 403
                    ELSE IF ~Val(profile).is_admin /\ ~Val(profile).is_moderator
                    THEN 403
                    ELSE 0

\* The checks at lines 24-57 of each handler: 401, 403, or 0 to go on.
\* delete-recipe asks for is_admin, the others for is_admin or is_moderator.
Authorize(authorization, adminOnly) ==
  IF ~IsPresent(authorization) \/ Val(authorization).scheme # "Bearer" THEN 401
  ELSE LET user == getUser(Val(authorization).token)
       IN  IF ~IsPresent(user) THEN 401
           ELSE LET profile == ProfileOf(Val(user))
                IN  IF ~IsPresent(profile) THEN 403
                    ELSE IF adminOnly /\ ~Val(profile).is_admin THEN 403
                    ELSE IF ~Val(profile).is_admin /\ ~Val(profile).is_moderator
                    THEN 403
                    ELSE 0

\* The outcome of a handler: the status of the response and the tables and
\* the bucket as the handler leaves them.
Outcome(status, table, store) == [status |-> status, recipes |-> table, db |-> store]

AuditEntry(n, user, action, recipe_id) ==
  [n |-> n, user_id |-> user, action |-> action, recipe_id |-> recipe_id]

\* String.prototype.startsWith
startsWith(str, prefix) ==
  Len(str) >= Len(prefix) /\ SubSeq(str, 1, Len(prefix)) = prefix

PathPrefix == <<"r", "e", "c", "i", "p", "e", "s", "/">>
DotDot == <<".", ".">>
BucketName == <<"r", "e", "c", "i", "p", "e", "-", "i", "m", "a", "g", "e", "s">>

PiePath == PathPrefix \o <<"p", "i", "e">>

\* The public URL of a file of the bucket recipe-images.
PublicUrl(path) == <<"/">> \o BucketName \o <<"/">> \o path

\* image_url.split('/recipe-images/')[1] for a URL that holds the separator
FilePathOf(url) ==
  LET sep == <<"/">> \o BucketName \o <<"/">>
      at == CHOOSE i \in 0..(Len(url) - Len(sep)) :
              /\ SubSeq(url, i + 1, i + Len(sep)) = sep
              /\ \A j \in 0..(i - 1) : SubSeq(url, j + 1, j + Len(sep)) # sep
  IN  SubSeq(url, at + Len(sep) + 1, Len(url))

\* part_000 59-101: sign-upload after the checks
SignUpload(table, store, n, user, body) ==
  IF ~NonEmpty(body.path) THEN {Outcome(400, table, store)}
  ELSE IF ~startsWith(Val(body.path), PathPrefix) \/ includes(Val(body.path), DotDot)
  THEN {Outcome(400, table, store)}
  ELSE { Outcome(500, table, store),
         Outcome(200, table, [store EXCEPT !.signed = @ \cup {Val(body.path)}]) }

\* The fields create-recipe requires: a field that is '' or 0 is missing.
MissingFields(recipe) ==
  \/ recipe.title = <<>> \/ recipe.description = <<>> \/ recipe.cuisine = <<>>
  \/ recipe.difficulty = <<>> \/ recipe.slug = 0
  \/ recipe.prep_time_mins = 0 \/ recipe.cook_time_mins = 0
  \/ recipe.base_servings = 0

\* The row INSERT INTO recipes makes of the body's recipe: is_published
\* and is_featured default to FALSE, total_time_mins is generated.
InsertedRow(recipe, tags, n) ==
  [id |-> recipe.slug, slug |-> recipe.slug, title |-> recipe.title,
   description |-> recipe.description, cuisine |-> recipe.cuisine,
   difficulty |-> recipe.difficulty, prep_time_mins |-> recipe.prep_time_mins,
   total_time_mins |-> recipe.prep_time_mins + recipe.cook_time_mins,
   date_published |-> Some(n), tags |-> tags,
   is_published |-> IF IsPresent(recipe.is_published)
                    THEN Val(recipe.is_published) ELSE FALSE,
   is_featured |-> FALSE, created_at |-> n, image_url |-> recipe.image_url]

ChildRows(recipe_id, names) == {[recipe_id |-> recipe_id, name |-> names[i]] : i \in 1..Len(names)}

\* part_001 59-212: create-recipe after the checks.  An insert that fails
\* after the recipe row was written is followed by the delete of the row.
CreateRecipe(table, store, n, user, body) ==
  IF ~IsPresent(body.recipe) THEN {Outcome(400, table, store)}
  ELSE LET recipe == Val(body.recipe) IN
    IF MissingFields(recipe) THEN {Outcome(400, table, store)}
    ELSE IF \E r \in table : r.slug = recipe.slug THEN {Outcome(409, table, store)}
    ELSE
      LET row == InsertedRow(recipe, body.tags, n)
          written ==
            [store EXCEPT
               !.ingredients = @ \cup ChildRows(row.id, body.ingredients),
               !.steps = @ \cup ChildRows(row.id, body.steps),
               !.audit = @ \cup {AuditEntry(n, user, "create", Some(row.id))}]
      IN  { Outcome(500, table, store), Outcome(201, table \cup {row}, written) }

\* UPDATE recipes SET ... : the row with the fields of the body's recipe
\* that are given.
Patched(row, recipe) ==
  [row EXCEPT
     !.title = IF IsPresent(recipe.title) THEN Val(recipe.title) ELSE @,
     !.slug = IF IsPresent(recipe.slug) THEN Val(recipe.slug) ELSE @,
     !.is_published = IF IsPresent(recipe.is_published)
                      THEN Val(recipe.is_published) ELSE @]

\* DELETE FROM recipe_ingredients / recipe_steps WHERE recipe_id = ...
WithoutChildren(store, recipe_id) ==
  [store EXCEPT !.ingredients = {c \in @ : c.recipe_id # recipe_id},
                !.steps = {c \in @ : c.recipe_id # recipe_id}]

\* publish-toggle.js 222-399: update-recipe after the checks.  The rows of
\* the recipe's ingredients, steps and tags are deleted and the body's are
\* inserted; an insert that fails ends the handler where it is.
UpdateRecipe(table, store, n, user, body) ==
  IF ~IsPresent(body.recipeId) \/ ~IsPresent(body.recipe) THEN {Outcome(400, table, store)}
  ELSE
    LET recipeId == Val(body.recipeId)
        recipe == Val(body.recipe)
    IN  IF ~\E r \in table : r.id = recipeId THEN {Outcome(404, table, store)}
        ELSE
          LET existingRecipe == CHOOSE r \in table : r.id = recipeId
              slugConflict ==
                /\ IsPresent(recipe.slug) /\ Val(recipe.slug) # 0
                /\ Val(recipe.slug) # existingRecipe.slug
                /\ \E r \in table : r.slug = Val(recipe.slug) /\ r.id # recipeId
              others == table \ {existingRecipe}
              updated == Patched(existingRecipe, recipe)
              bare == WithoutChildren(store, recipeId)
              withIngredients ==
                [bare EXCEPT !.ingredients = @ \cup ChildRows(recipeId, body.ingredients)]
              withSteps ==
                [withIngredients EXCEPT !.steps = @ \cup ChildRows(recipeId, body.steps)]
              logged ==
                [withSteps EXCEPT
                   !.audit = @ \cup {AuditEntry(n, user, "update", Some(recipeId))}]
          IN  IF slugConflict THEN {Outcome(409, table, store)}
              ELSE
                { Outcome(500, table, store),
                  Outcome(200, others \cup {[updated EXCEPT !.tags = body.tags]}, logged) }
                \cup (IF body.ingredients # <<>>
                      THEN {Outcome(500, others \cup {[updated EXCEPT !.tags = <<>>]}, bare)}
                      ELSE {})
                \cup (IF body.steps # <<>>
                      THEN {Outcome(500, others \cup {[updated EXCEPT !.tags = <<>>]},
                                    withIngredients)}
                      ELSE {})
                \cup (IF body.tags # <<>>
                      THEN {Outcome(500, others \cup {[updated EXCEPT !.tags = <<>>]},
                                    withSteps)}
                      ELSE {})

\* publish-toggle.js 59-143: publish-toggle after the checks
PublishToggle(table, store, n, user, body) ==
  LET targetRecipeIds ==
        IF IsPresent(body.recipeIds) THEN Val(body.recipeIds)
        ELSE IF IsPresent(body.recipeId) THEN <<Val(body.recipeId)>>
        ELSE <<>>
      targets == Elements(targetRecipeIds)
      existingRecipes == {r \in table : r.id \in targets}
      action == IF Val(body.published) THEN "publish" ELSE "unpublish"
  IN  IF targetRecipeIds = <<>> THEN {Outcome(400, table, store)}
      ELSE IF ~IsPresent(body.published) THEN {Outcome(400, table, store)}
      ELSE IF Cardinality(existingRecipes) # Len(targetRecipeIds)
      THEN {Outcome(500, table, store), Outcome(404, table, store)}
      ELSE
        { Outcome(500, table, store),
          Outcome(200,
                  {IF r.id \in targets
                   THEN [r EXCEPT !.is_published = Val(body.published)] ELSE r :
                     r \in table},
                  [store EXCEPT
                     !.audit = @ \cup {AuditEntry(n, user, action, Some(id)) :
                                         id \in targets}]) }

\* delete-recipe.js 59-140: delete-recipe after the checks.  The image of
\* the recipe is removed from the bucket, or is not when the storage
\* fails, the rows of the recipe's
\* ingredients, steps and tags go with the row (ON DELETE CASCADE), and
\* the audit entries of the recipe keep no recipe_id (ON DELETE SET NULL).
DeleteRecipe(table, store, n, user, body) ==
  IF ~IsPresent(body.recipeId) THEN {Outcome(400, table, store)}
  ELSE
    LET recipeId == Val(body.recipeId) IN
    IF ~\E r \in table : r.id = recipeId THEN {Outcome(404, table, store)}
    ELSE
      LET existingRecipe == CHOOSE r \in table : r.id = recipeId
          hasImage == /\ IsPresent(existingRecipe.image_url)
                      /\ includes(Val(existingRecipe.image_url), BucketName)
          cleaned ==
            [store EXCEPT !.files = @ \ {FilePathOf(Val(existingRecipe.image_url))}]
          stores == IF hasImage THEN {cleaned, store} ELSE {store}
          Deleted(base) ==
            [WithoutChildren(base, recipeId) EXCEPT
               !.audit = {[e EXCEPT !.recipe_id = IF @ = Some(recipeId) THEN Absent ELSE @] :
                            e \in @}
                         \cup {AuditEntry(n, user, "delete", Absent)}]
      IN  UNION { { Outcome(500, table, base),
                    Outcome(200, table \ {existingRecipe}, Deleted(base)) } :
                  base \in stores }

\* The method each handler allows, and whether it asks for is_admin.
Endpoints ==
  [e \in {"sign-upload", "create-recipe", "update-recipe", "publish-toggle",
          "delete-recipe"} |->
     [method |-> CASE e = "update-recipe" -> "PUT" [] e = "delete-recipe" -> "DELETE"
                   [] OTHER -> "POST",
      adminOnly |-> e = "delete-recipe"]]

\* A handler from its first line: the method, the checks of the caller,
\* then the work of the endpoint.
handler(endpoint, table, store, n, req) ==
  IF req.method # Endpoints[endpoint].method THEN {Outcome(405, table, store)}
  ELSE
    LET verdict == Authorize(req.authorization, Endpoints[endpoint].adminOnly)
        user == Val(getUser(Val(req.authorization).token))
    IN  IF verdict # 0 THEN {Outcome(verdict, table, store)}
        ELSE CASE endpoint = "sign-upload" -> SignUpload(table, store, n, user, req.body)
               [] endpoint = "create-recipe" -> CreateRecipe(table, store, n, user, req.body)
               [] endpoint = "update-recipe" -> UpdateRecipe(table, store, n, user, req.body)
               [] endpoint = "publish-toggle" -> PublishToggle(table, store, n, user, req.body)
               [] endpoint = "delete-recipe" -> DeleteRecipe(table, store, n, user, req.body)

\* The number of requests to the admin endpoints in a behaviour.
MaxOps == 2

Request(method, authorization, body) ==
  [method |-> method, authorization |-> authorization, body |-> body]

\* The requests to an endpoint: each body with each Authorization header,
\* and a request with another method.
Requests(endpoint, bodies) ==
  { Request(Endpoints[endpoint].method, h, b) : h \in AuthHeaders, b \in bodies }
  \cup { Request("GET", h, b) :
           h \in {Absent, Some(Header("Bearer", "tok-admin"))}, b \in bodies }

\* The recipe of a create-recipe body, from a recipe of the fixture data.
Draft(dish, cook_time_mins, is_published, image_url) ==
  [slug |-> dish.id, title |-> dish.title, description |-> dish.description,
   cuisine |-> dish.cuisine, difficulty |-> dish.difficulty,
   prep_time_mins |-> dish.prepTimeMins, cook_time_mins |-> cook_time_mins,
   base_servings |-> 4, is_published |-> is_published, image_url |-> image_url]

SignUploadBodies ==
  { [path |-> p] : p \in {Absent, Some(PiePath), Some(<<"t", "m", "p">>),
                          Some(PathPrefix \o DotDot)} }

CreateRecipeBodies ==
  { [recipe |-> Absent, ingredients |-> <<>>, steps |-> <<>>, tags |-> <<>>],
    [recipe |-> Some(Draft(Dishes[1], 25, Absent, Some(PublicUrl(PiePath)))),
     ingredients |-> <<"flour">>, steps |-> <<"bake">>, tags |-> <<Quick>>],
    [recipe |-> Some(Draft(Dishes[2], 15, Some(TRUE), Absent)),
     ingredients |-> <<>>, steps |-> <<>>, tags |-> <<Vegan>>],
    [recipe |-> Some(Draft(Dishes[3], 0, Absent, Absent)),
     ingredients |-> <<"lentils">>, steps |-> <<>>, tags |-> <<>>] }

\* The recipe of an update-recipe body: the fields that are given.
Changes(title, slug, is_published) ==
  [title |-> title, slug |-> slug, is_published |-> is_published]

UpdateRecipeBodies ==
  { [recipeId |-> Absent, recipe |-> Some(Changes(Absent, Absent, Some(TRUE))),
     ingredients |-> <<>>, steps |-> <<>>, tags |-> <<>>],
    [recipeId |-> Some(1), recipe |-> Absent,
     ingredients |-> <<>>, steps |-> <<>>, tags |-> <<>>],
    [recipeId |-> Some(1), recipe |-> Some(Changes(Some(<<"F", "l", "a", "n">>), Absent, Absent)),
     ingredients |-> <<"eggs">>, steps |-> <<>>, tags |-> <<Quick>>],
    [recipeId |-> Some(1), recipe |-> Some(Changes(Absent, Some(2), Absent)),
     ingredients |-> <<>>, steps |-> <<>>, tags |-> <<>>],
    [recipeId |-> Some(2), recipe |-> Some(Changes(Absent, Absent, Some(FALSE))),
     ingredients |-> <<>>, steps |-> <<"cool">>, tags |-> <<Vegan>>],
    [recipeId |-> Some(1), recipe |-> Some(Changes(Absent, Absent, Some(TRUE))),
     ingredients |-> <<>>, steps |-> <<>>, tags |-> <<>>] }

PublishToggleBodies ==
  { [recipeId |-> Absent, recipeIds |-> Absent, published |-> Some(TRUE)],
    [recipeId |-> Some(1), recipeIds |-> Absent, published |-> Absent] }
  \cup { [recipeId |-> Absent, recipeIds |-> Some(ids), published |-> Some(p)] :
           ids \in {<<1>>, <<1, 2>>}, p \in BOOLEAN }
  \cup { [recipeId |-> Some(2), recipeIds |-> Absent, published |-> Some(p)] :
           p \in BOOLEAN }

DeleteRecipeBodies == { [recipeId |-> id] : id \in {Absent, Some(1), Some(2)} }

\* A request to an admin endpoint and one of its outcomes.
Serve(endpoint, req) ==
  LET n == IF admin.called THEN admin.n + 1 ELSE 1
  IN  \E o \in handler(endpoint, recipes, db, n, req) :
        /\ recipes' = o.recipes
        /\ db' = o.db
        /\ admin' = [called |-> TRUE, n |-> n, endpoint |-> endpoint,
                     method |-> req.method, authorization |-> req.authorization,
                     status |-> o.status]
        /\ UNCHANGED <<response, unitVars, mockVars, uiVars>>

\* More requests can be made while fewer than MaxOps were, and until the
\* public query is made.
MoreOps == ~response.called /\ (admin.called => admin.n < MaxOps)

\* POST /api/admin/sign-upload
SignUploadRequest ==
  /\ MoreOps
  /\ \E req \in Requests("sign-upload", SignUploadBodies) : Serve("sign-upload", req)

\* POST /api/admin/create-recipe
CreateRecipeRequest ==
  /\ MoreOps
  /\ \E req \in Requests("create-recipe", CreateRecipeBodies) : Serve("create-recipe", req)

\* PUT /api/admin/update-recipe
UpdateRecipeRequest ==
  /\ MoreOps
  /\ \E req \in Requests("update-recipe", UpdateRecipeBodies) : Serve("update-recipe", req)

\* POST /api/admin/publish-toggle
PublishToggleRequest ==
  /\ MoreOps
  /\ \E req \in Requests("publish-toggle", PublishToggleBodies) : Serve("publish-toggle", req)

\* DELETE /api/admin/delete-recipe
DeleteRecipeRequest ==
  /\ MoreOps
  /\ \E req \in Requests("delete-recipe", DeleteRecipeBodies) : Serve("delete-recipe", req)

\* The query strings of the requests to GET /api/public/recipes.
PublicRequests ==
  { [method |-> "GET", q |-> q, cuisine |-> Absent, tag |-> tag, difficulty |-> Absent,
     limit |-> Absent, page |-> Absent, featured |-> featured] :
      q \in {Absent, Some(<<"p", "i", "e">>)}, tag \in {Absent, Some(Quick)},
      featured \in BOOLEAN }
  \cup { [method |-> "GET", q |-> Absent, cuisine |-> Absent, tag |-> Absent,
          difficulty |-> Absent, limit |-> Some(Digits(1)), page |-> page,
          featured |-> featured] :
           page \in {Absent, Some(Digits(2))}, featured \in BOOLEAN }
  \cup { [method |-> "GET", q |-> Absent, cuisine |-> c, tag |-> Absent, difficulty |-> d,
          limit |-> Absent, page |-> Absent, featured |-> FALSE] :
           c \in {Absent, Some(British)}, d \in {Absent, Some(Easy)} }

\* GET /api/public/recipes, after the requests to the admin endpoints
PublicRecipesRequest ==
  /\ ~response.called
  /\ \E req \in PublicRequests :
       \E r \in HandlerResponses(recipes, req) :
         response' = [called |-> TRUE, built |-> FALSE, req |-> req, res |-> r]
  /\ UNCHANGED <<recipes, admin, db, unitVars, mockVars, uiVars>>

\* The table before the requests: recipe 1 published with an image in the
\* bucket and recipe 2 unpublished, or no recipe.
SeedTable ==
  { [Row(Dishes[1], TRUE) EXCEPT !.image_url = Some(PublicUrl(PiePath))],
    Row(Dishes[2], FALSE) }

InitAdmin ==
  /\ conv = NoCall /\ back = NoCall /\ scaled = NoCall /\ shown = NoCall
  /\ mockRecipes = <<>> /\ query = NoCall /\ panel = NoCall /\ app = Unmounted /\ auth = SignedOut /\ recipesPage = NoCall
  /\ recipes \in {{}, SeedTable} /\ response = NoCall /\ admin = NoCall
  /\ db = [EmptyDb EXCEPT !.files = {PiePath}]

NextAdmin ==
  \/ SignUploadRequest
  \/ CreateRecipeRequest
  \/ UpdateRecipeRequest
  \/ PublishToggleRequest
  \/ DeleteRecipeRequest
  \/ PublicRecipesRequest

SpecAdmin == InitAdmin /\ [][NextAdmin]_vars

(***************************************************************************)
(* C19.  After any sequence of create-recipe, update-recipe,               *)
(* publish-toggle and delete-recipe operations, every recipe in a response *)
(* of GET /api/public/recipes is a row of the recipes table with           *)
(* is_published = true when the query runs: an unpublished recipe is never *)
(* returned, whatever the query parameters.                                *)
(***************************************************************************)
C19_OnlyPublishedReturned ==
  (response.called /\ response.res.status = 200) =>
    \A i \in 1..Len(response.res.recipes) :
      /\ response.res.recipes[i] \in recipes
      /\ response.res.recipes[i].is_published

\* After a request that changed the table, a query returns a recipe while
\* the table holds an unpublished one.
C19_Witness ==
  /\ admin.called /\ admin.status \in {200, 201} /\ admin.endpoint # "sign-upload"
  /\ response.called /\ response.res.status = 200
  /\ Len(response.res.recipes) > 0
  /\ \E r \in recipes : ~r.is_published

(***************************************************************************)
(* C20.  Each admin endpoint (sign-upload, create-recipe, update-recipe,   *)
(* publish-toggle, delete-recipe), asked with its method, answers 401 to a *)
(* request without a 'Bearer ' Authorization header or with a token that   *)
(* resolves to no user, and 403 to a user whose profile is neither admin   *)
(* nor moderator; such a request writes, changes and deletes no recipe,    *)
(* ingredient, step, tag, audit entry or file.                             *)
(***************************************************************************)
NoBearer(authorization) ==
  ~IsPresent(authorization) \/ Val(authorization).scheme # "Bearer"

NoUser(authorization) ==
  NoBearer(authorization) \/ Val(authorization).token \notin DOMAIN Sessions

Privileged(authorization) ==
  /\ ~NoUser(authorization)
  /\ Sessions[Val(authorization).token] \in DOMAIN profiles
  /\ LET profile == profiles[Sessions[Val(authorization).token]]
     IN  profile.is_admin \/ profile.is_moderator

C20_UnauthorizedRejected ==
  [][ (admin' # admin /\ admin'.method = Endpoints[admin'.endpoint].method
         /\ ~Privileged(admin'.authorization)) =>
        /\ admin'.status = IF NoUser(admin'.authorization) THEN 401 ELSE 403
        /\ recipes' = recipes
        /\ db' = db ]_vars

\* A signed-in user without privileges was answered 403 while the table
\* held recipes.
C20_Witness ==
  /\ admin.called /\ admin.status = 403 /\ admin.endpoint = "update-recipe"
  /\ admin.authorization = Some(Header("Bearer", "tok-member"))
  /\ recipes # {}

(***************************************************************************)
(* C21.  Only administrators can delete recipes: delete-recipe removes a   *)
(* recipe row or its image only for a user whose profile has is_admin, and *)
(* answers a moderator with 403, leaving the recipe, its image and the     *)
(* audit log as they were.                                                 *)
(***************************************************************************)
IsAdmin(authorization) ==
  /\ ~NoUser(authorization)
  /\ Sessions[Val(authorization).token] \in DOMAIN profiles
  /\ profiles[Sessions[Val(authorization).token]].is_admin

C21_OnlyAdminsDelete ==
  [][ (admin' # admin /\ admin'.endpoint = "delete-recipe") =>
        /\ (recipes' # recipes \/ db' # db) => IsAdmin(admin'.authorization)
        /\ (admin'.method = "DELETE"
              /\ admin'.authorization = Some(Header("Bearer", "tok-moderator"))) =>
             (admin'.status = 403 /\ recipes' = recipes /\ db' = db) ]_vars

\* A moderator asked to delete while the table held a recipe with an image
\* in the bucket.
C21_Witness ==
  /\ admin.called /\ admin.endpoint = "delete-recipe" /\ admin.status = 403
  /\ admin.authorization = Some(Header("Bearer", "tok-moderator"))
  /\ recipes = SeedTable /\ PiePath \in db.files

(***************************************************************************)
(* C22.  All admin actions are logged: a request to an admin endpoint that *)
(* changes the recipes, their ingredients, steps or tags records an        *)
(* admin_audit entry with the acting user and the action.                  *)
(***************************************************************************)
ActionsOf(endpoint) ==
  CASE endpoint = "create-recipe" -> {"create"}
    [] endpoint = "update-recipe" -> {"update"}
    [] endpoint = "publish-toggle" -> {"publish", "unpublish"}
    [] endpoint = "delete-recipe" -> {"delete"}
    [] OTHER -> {}

C22_ChangesAreAudited ==
  [][ (admin' # admin
         /\ (recipes' # recipes \/ db'.ingredients # db.ingredients
               \/ db'.steps # db.steps)) =>
        \E e \in db'.audit :
          /\ e.n = admin'.n
          /\ e.user_id = Sessions[Val(admin'.authorization).token]
          /\ e.action \in ActionsOf(admin'.endpoint) ]_vars

(***************************************************************************)
(* C26.  Recipe writes are all-or-nothing on error: when create-recipe or  *)
(* update-recipe answers with an error status, the recipes with their      *)
(* tags, the ingredients and the steps are the rows of before the request. *)
(***************************************************************************)
C26_ErrorLeavesRowsAlone ==
  [][ (admin' # admin /\ admin'.endpoint \in {"create-recipe", "update-recipe"}
         /\ admin'.status >= 400) =>
        /\ recipes' = recipes
        /\ db'.ingredients = db.ingredients
        /\ db'.steps = db.steps ]_vars

(***************************************************************************)
(* C23.  For every limit and page of a GET /api/public/recipes request     *)
(* (absent, not a number, zero, negative, very large) the page size used   *)
(* is between 1 and 100, and 20 when limit is absent or not a number; the  *)
(* page number is at least 1, and 1 when page is absent or not a number;   *)
(* the offset passed to the query is at least 0.                           *)
(***************************************************************************)
NotANumber(param) == ~IsPresent(param) \/ Val(param).text # "digits"

C23_PaginationInRange ==
  (response.called /\ response.req.method = "GET") =>
    LET used == PageOf(response.req)
    IN  /\ used.limitNum \in 1..100
        /\ NotANumber(response.req.limit) => used.limitNum = 20
        /\ used.pageNum >= 1
        /\ NotANumber(response.req.page) => used.pageNum = 1
        /\ used.offset >= 0

(***************************************************************************)
(* C30.  At the recipe's base serving count the scaler is the identity on  *)
(* stored quantities: for every quantity q with at most two decimals and   *)
(* every s >= 1, scaleIngredientQuantity(q, s, s) = q.                     *)
(***************************************************************************)
C30_BaseServingsIdentity ==
  (scaled.called /\ scaled.newServings = scaled.originalServings) =>
    scaled.result = scaled.originalQuantity

(***************************************************************************)
(* C29.  An empty search string and an empty cuisine, tags or difficulty   *)
(* list are treated as absent: getMockRecipes with such a field returns    *)
(* what it returns with the field omitted, and toggleArrayFilter stores an *)
(* absent field, not an empty list, when the last value of a field is      *)
(* removed.                                                                *)
(***************************************************************************)
IsEmptyField(o) == IsPresent(o) /\ Val(o) = <<>>

HasEmptyField(filters) ==
  /\ IsPresent(filters)
  /\ \E k \in {"search", "cuisine", "tags", "difficulty"} : IsEmptyField(Val(filters)[k])

Omitting(filters) ==
  LET f == Val(filters)
  IN  Some([k \in DOMAIN f |->
              IF k # "maxPrepTime" /\ IsEmptyField(f[k]) THEN Absent ELSE f[k]])

C29_EmptyFieldsAbsent ==
  /\ (Queried /\ HasEmptyField(query.args.filters)) =>
       query.result \in MockResults(query.data, Omitting(query.args.filters),
                                    query.args.sort, query.args.limit,
                                    query.args.offset)
  /\ panel.called =>
       LET before == panel.filters[panel.key]
           after == panel.result[panel.key]
       IN  /\ ~IsEmptyField(after)
           /\ (IsPresent(before) /\ Val(before) = <<panel.value>>) => after = Absent
           /\ \A k \in DOMAIN panel.filters \ {panel.key} :
                panel.result[k] = panel.filters[k]

\* The last cuisine was removed on the panel, the filters handed on hold
\* an empty tags list, and the query with them returned recipes.
C29_Witness ==
  /\ panel.called /\ panel.key = "cuisine"
  /\ panel.filters.cuisine = Some(<<British>>) /\ panel.result.cuisine = Absent
  /\ Queried /\ query.args.filters = Some(panel.result)
  /\ IsEmptyField(panel.result.tags)
  /\ Len(query.result.recipes) = MaxRecipes

(***************************************************************************)
(* AppProvider (src/unnamed/part_005): the unit system and the favourites  *)
(* with their copies in localStorage.  A state update is queued and        *)
(* applied by the next render; the effects of a commit run after it, all   *)
(* of them on mount and afterwards those whose dependency changed.         *)
(***************************************************************************)

\* The number of page reloads and of queued state updates in a behaviour.
MaxReloads == 2
MaxQueue == 2

RecipeIds == {"1", "2"}

\* JSON.stringify of a list of recipe ids: ["1","2"]
RECURSIVE Quoted(_)
Quoted(ids) ==
  IF ids = <<>> THEN <<>>
  ELSE <<"\"", Head(ids), "\"">>
         \o (IF Len(ids) > 1 THEN <<",">> ELSE <<>>) \o Quoted(Tail(ids))

JSONstringify(ids) == <<"[">> \o Quoted(ids) \o <<"]">>

\* JSON.parse of such a text: the strings between the quotes
RECURSIVE Unquoted(_)
Unquoted(text) ==
  IF Len(text) < 3 THEN <<>>
  ELSE IF Head(text) = "\"" THEN <<text[2]>> \o Unquoted(SubSeq(text, 4, Len(text)))
  ELSE Unquoted(Tail(text))

JSONparse(text) == Unquoted(SubSeq(text, 2, Len(text) - 1))

\* A queued state update.
Update(kind, arg) == [kind |-> kind, arg |-> arg]

\* The state after the queued updates, in their order.
RECURSIVE Reduce(_, _)
Reduce(state, queue) ==
  IF queue = <<>> THEN state
  ELSE
    LET u == Head(queue)
        next ==
          CASE u.kind = "setUnitSystem" -> [state EXCEPT !.unitSystem = u.arg]
            [] u.kind = "toggleUnitSystem" ->
                 [state EXCEPT !.unitSystem = IF @ = "metric" THEN "imperial" ELSE "metric"]
            [] u.kind = "setFavorites" -> [state EXCEPT !.favorites = u.arg, !.fresh = TRUE]
            [] u.kind = "addToFavorites" ->
                 IF ~Contains(state.favorites, u.arg)
                 THEN [state EXCEPT !.favorites = Append(@, u.arg), !.fresh = TRUE]
                 ELSE state
            [] u.kind = "removeFromFavorites" ->
                 [state EXCEPT !.favorites = SelectSeq(@, LAMBDA id : id # u.arg),
                               !.fresh = TRUE]
    IN  Reduce(next, Tail(queue))

\* part_005 21-37: the effect that loads the saved preferences
LoadUpdates(localStorage) ==
  (IF IsPresent(localStorage.unitSystem)
      /\ Val(localStorage.unitSystem) \in {"metric", "imperial"}
   THEN <<Update("setUnitSystem", Val(localStorage.unitSystem))>> ELSE <<>>)
  \o (IF NonEmpty(localStorage.favorites)
      THEN <<Update("setFavorites", JSONparse(Val(localStorage.favorites)))>>
      ELSE <<>>)

\* The first render of AppProvider, on the first visit and after a reload
Mount ==
  /\ ~app.mounted
  /\ app' = [app EXCEPT !.mounted = TRUE, !.unitSystem = "metric", !.favorites = <<>>,
                        !.queue = <<>>, !.touched = FALSE,
                        !.effects = {"load", "saveUnitSystem", "saveFavorites"}]
  /\ UNCHANGED <<unitVars, mockVars, serverVars, panel, auth, recipesPage>>

\* part_005 21-46: the effects of the last commit, in the order of the code.
\* settled keeps the values shown when nothing is pending afterwards.
RunEffects ==
  /\ app.mounted /\ app.effects # {}
  /\ app' = [app EXCEPT
       !.queue = IF "load" \in app.effects THEN @ \o LoadUpdates(app.localStorage) ELSE @,
       !.settled = IF app.queue = <<>>
                      /\ ("load" \in app.effects => LoadUpdates(app.localStorage) = <<>>)
                   THEN [unitSystem |-> app.unitSystem, favorites |-> app.favorites]
                   ELSE @,
       !.localStorage =
          [unitSystem |-> IF "saveUnitSystem" \in app.effects
                          THEN Some(app.unitSystem) ELSE @.unitSystem,
           favorites |-> IF "saveFavorites" \in app.effects
                         THEN Some(JSONstringify(app.favorites)) ELSE @.favorites],
       !.effects = {}]
  /\ UNCHANGED <<unitVars, mockVars, serverVars, panel, auth, recipesPage>>

\* The render that applies the queued updates; the effects of the last
\* commit have run before it.
Render ==
  /\ app.mounted /\ app.effects = {} /\ app.queue # <<>>
  /\ LET new == Reduce([unitSystem |-> app.unitSystem, favorites |-> app.favorites,
                        fresh |-> FALSE], app.queue)
     IN  app' = [app EXCEPT
           !.unitSystem = new.unitSystem,
           !.favorites = new.favorites,
           !.queue = <<>>,
           !.effects = (IF new.unitSystem # app.unitSystem THEN {"saveUnitSystem"} ELSE {})
                       \cup (IF new.fresh THEN {"saveFavorites"} ELSE {})]
  /\ UNCHANGED <<unitVars, mockVars, serverVars, panel, auth, recipesPage>>

\* A call of a function of the context queues its update.
Enqueue(update) ==
  /\ app.mounted /\ Len(app.queue) < MaxQueue
  /\ app' = [app EXCEPT !.queue = Append(@, update), !.touched = TRUE]
  /\ UNCHANGED <<unitVars, mockVars, serverVars, panel, auth, recipesPage>>

\* part_005 48-50
ToggleUnitSystem == Enqueue(Update("toggleUnitSystem", ""))

\* part_005 52-59
AddToFavorites == \E recipeId \in RecipeIds : Enqueue(Update("addToFavorites", recipeId))

\* part_005 61-63
RemoveFromFavorites ==
  \E recipeId \in RecipeIds : Enqueue(Update("removeFromFavorites", recipeId))

\* Nothing is pending: no queued update and no effect to run.
Settled == app.mounted /\ app.effects = {} /\ app.queue = <<>>

\* The page is reloaded or closed: the provider and its state are gone,
\* localStorage stays.  before keeps the values last shown with nothing
\* pending.
Reload ==
  /\ app.mounted /\ app.reloads < MaxReloads
  /\ app' = [app EXCEPT !.mounted = FALSE, !.queue = <<>>, !.effects = {},
                        !.reloads = @ + 1,
                        !.before = app.settled]
  /\ UNCHANGED <<unitVars, mockVars, serverVars, panel, auth, recipesPage>>

InitApp ==
  /\ conv = NoCall /\ back = NoCall /\ scaled = NoCall /\ shown = NoCall
  /\ mockRecipes = <<>> /\ query = NoCall /\ panel = NoCall /\ app = Unmounted /\ auth = SignedOut /\ recipesPage = NoCall
  /\ recipes = {} /\ response = NoCall /\ admin = NoCall /\ db = EmptyDb

NextApp ==
  \/ Mount \/ RunEffects \/ Render
  \/ ToggleUnitSystem \/ AddToFavorites \/ RemoveFromFavorites
  \/ Reload

SpecApp == InitApp /\ [][NextApp]_vars

(***************************************************************************)
(* C24.  Favourites and the unit system persist across reloads: after a    *)
(* reload, once the mount effects have run, the favourites and the unit    *)
(* system the provider goes on with are those of before the reload, and    *)
(* localStorage still holds the saved favourites.                          *)
(***************************************************************************)
C24_PreferencesPersist ==
  (app.mounted /\ app.reloads > 0 /\ app.effects = {} /\ ~app.touched) =>
    LET next == Reduce([unitSystem |-> app.unitSystem, favorites |-> app.favorites,
                        fresh |-> FALSE], app.queue)
    IN  /\ next.unitSystem = app.before.unitSystem
        /\ next.favorites = app.before.favorites
        /\ app.localStorage.favorites = Some(JSONstringify(app.before.favorites))

(***************************************************************************)
(* AuthProvider (src/admin-panel/src/contexts/AuthContext.jsx).  The       *)
(* handler of an auth state change sets the user and starts the load of    *)
(* the user's profile; the load ends later, with the profile or with an    *)
(* error.                                                                  *)
(***************************************************************************)

\* The number of auth state changes (initial session, sign-in, sign-out)
\* in a behaviour.
MaxEvents == 3

Users == DOMAIN profiles

\* AuthContext.jsx 23-31 and 38-41: a session with a user
SessionWithUser ==
  /\ auth.events < MaxEvents
  /\ \E u \in Users :
       auth' = [auth EXCEPT !.user = Some(u), !.loads = @ \cup {u}, !.events = @ + 1]
  /\ UNCHANGED <<unitVars, mockVars, serverVars, panel, app, recipesPage>>

\* AuthContext.jsx 42-47 and 91-103: no session, or signOut without error
SessionEnded ==
  /\ auth.events < MaxEvents
  /\ auth' = [auth EXCEPT !.user = Absent, !.profile = Absent, !.isAdmin = FALSE,
                          !.isModerator = FALSE, !.loading = FALSE, !.events = @ + 1]
  /\ UNCHANGED <<unitVars, mockVars, serverVars, panel, app, recipesPage>>

\* AuthContext.jsx 56-73: loadUserProfile(userId) ends with the profile
ProfileLoaded ==
  /\ \E userId \in auth.loads :
       auth' = [auth EXCEPT !.profile = Some(userId),
                            !.isAdmin = profiles[userId].is_admin,
                            !.isModerator = profiles[userId].is_moderator,
                            !.loading = FALSE, !.loads = @ \ {userId}]
  /\ UNCHANGED <<unitVars, mockVars, serverVars, panel, app, recipesPage>>

\* AuthContext.jsx 64-67: loadUserProfile(userId) ends with an error
ProfileLoadFailed ==
  /\ \E userId \in auth.loads :
       auth' = [auth EXCEPT !.loading = FALSE, !.loads = @ \ {userId}]
  /\ UNCHANGED <<unitVars, mockVars, serverVars, panel, app, recipesPage>>

InitAuth ==
  /\ conv = NoCall /\ back = NoCall /\ scaled = NoCall /\ shown = NoCall
  /\ mockRecipes = <<>> /\ query = NoCall
  /\ panel = NoCall /\ app = Unmounted /\ auth = SignedOut /\ recipesPage = NoCall
  /\ recipes = {} /\ response = NoCall /\ admin = NoCall /\ db = EmptyDb

NextAuth == SessionWithUser \/ SessionEnded \/ ProfileLoaded \/ ProfileLoadFailed

SpecAuth == InitAuth /\ [][NextAuth]_vars

(***************************************************************************)
(* C27.  In every reachable state of AuthProvider, isAdmin and isModerator *)
(* are true only if the profile of the user signed in has the flag; with   *)
(* no user both are false, whatever the order of auth state changes,       *)
(* signOut and profile loads.                                              *)
(***************************************************************************)
C27_RolesOfCurrentUser ==
  /\ auth.isAdmin => IsPresent(auth.user) /\ profiles[Val(auth.user)].is_admin
  /\ auth.isModerator => IsPresent(auth.user) /\ profiles[Val(auth.user)].is_moderator

(***************************************************************************)
(* RecipesPage (src/src/app/layout.tsx 85-358) with debounce               *)
(* (src/src/lib/utils.ts 166-176).  A change of filters, sort or page      *)
(* renders the page again; the effect of the render calls the              *)
(* debouncedSearch of that render, whose timer later calls getRecipes.     *)
(***************************************************************************)

\* The number of changes of filters, sort and page in a behaviour.
MaxChanges == 3

\* utils.ts 170: the timeout variable of a function made by debounce,
\* before its first call
NewClosure == [timeout |-> Absent]

\* utils.ts 172-175: a call of a debounced function clears the timer its
\* timeout variable holds and sets a new one
debounced(closure, timers, id, args) ==
  LET kept == IF IsPresent(closure.timeout)
              THEN {t \in timers : t.id # Val(closure.timeout)}
              ELSE timers
  IN  [timers |-> kept \cup {[id |-> id, args |-> args]},
       closure |-> [timeout |-> Some(id)]]

\* layout.tsx 96-121: the state of the first render, without URL parameters
FirstSearch ==
  [filters |-> Filters(Absent, Absent, Absent, Absent, Absent),
   sort |-> [field |-> "title", direction |-> "asc"], currentPage |-> 1]

\* layout.tsx 123 and 138-140: the render makes debouncedSearch anew, and
\* the effect calls it with the filters, sort and page of the render
SearchEffect(args) ==
  LET id == IF recipesPage.called THEN recipesPage.changes + 1 ELSE 0
      timers == IF recipesPage.called THEN recipesPage.timers ELSE {}
  IN  [called |-> TRUE, changes |-> id, args |-> args,
       timers |-> debounced(NewClosure, timers, id, args).timers,
       fetches |-> IF recipesPage.called THEN recipesPage.fetches ELSE {},
       shown |-> IF recipesPage.called THEN recipesPage.shown ELSE Absent]

\* The first render of the page and its effect
MountPage ==
  /\ ~recipesPage.called
  /\ recipesPage' = SearchEffect(FirstSearch)
  /\ UNCHANGED <<unitVars, mockVars, serverVars, panel, app, auth>>

MoreChanges == recipesPage.called /\ recipesPage.changes < MaxChanges

\* layout.tsx 156-159: handleFiltersChange(newFilters)
HandleFiltersChange ==
  /\ MoreChanges
  /\ \E key \in {"cuisine", "tags"} :
       \E value \in (IF key = "cuisine" THEN {British} ELSE {Quick}) :
         recipesPage' = SearchEffect([recipesPage.args EXCEPT
                   !.filters = toggleArrayFilter(@, key, value), !.currentPage = 1])
  /\ UNCHANGED <<unitVars, mockVars, serverVars, panel, app, auth>>

\* layout.tsx 161-167: handleSortChange(field)
HandleSortChange ==
  /\ MoreChanges
  /\ \E field \in {"title", "totalTimeMins"} :
       recipesPage' = SearchEffect([recipesPage.args EXCEPT
                 !.sort = [field |-> field,
                           direction |-> IF @.field = field /\ @.direction = "asc"
                                         THEN "desc" ELSE "asc"],
                 !.currentPage = 1])
  /\ UNCHANGED <<unitVars, mockVars, serverVars, panel, app, auth>>

\* layout.tsx 301-329: setCurrentPage; the same page renders nothing anew
SetCurrentPage ==
  /\ MoreChanges
  /\ \E p \in (1..2) \ {recipesPage.args.currentPage} :
       recipesPage' = SearchEffect([recipesPage.args EXCEPT !.currentPage = p])
  /\ UNCHANGED <<unitVars, mockVars, serverVars, panel, app, auth>>

\* layout.tsx 124-127: a timer ends and getRecipes is called
TimerFires ==
  /\ recipesPage.called
  /\ \E t \in recipesPage.timers :
       recipesPage' = [recipesPage EXCEPT !.timers = @ \ {t}, !.fetches = @ \cup {t}]
  /\ UNCHANGED <<unitVars, mockVars, serverVars, panel, app, auth>>

\* layout.tsx 127-129: a getRecipes call returns and its result is shown
FetchReturns ==
  /\ recipesPage.called
  /\ \E t \in recipesPage.fetches :
       recipesPage' = [recipesPage EXCEPT !.fetches = @ \ {t}, !.shown = Some(t.args)]
  /\ UNCHANGED <<unitVars, mockVars, serverVars, panel, app, auth>>

InitPage ==
  /\ conv = NoCall /\ back = NoCall /\ scaled = NoCall /\ shown = NoCall
  /\ mockRecipes = <<>> /\ query = NoCall
  /\ panel = NoCall /\ app = Unmounted /\ auth = SignedOut /\ recipesPage = NoCall
  /\ recipes = {} /\ response = NoCall /\ admin = NoCall /\ db = EmptyDb

NextPage ==
  \/ MountPage
  \/ HandleFiltersChange \/ HandleSortChange \/ SetCurrentPage
  \/ TimerFires \/ FetchReturns

SpecPage == InitPage /\ [][NextPage]_vars

(***************************************************************************)
(* C25.  Recipe search is debounced: a change of filters, sort or page     *)
(* cancels the pending timer of the change before it, so that a timer      *)
(* that is pending (and the getRecipes call it makes) is that of the last  *)
(* change.                                                                 *)
(***************************************************************************)
C25_OnlyLastChangePending ==
  recipesPage.called => \A t \in recipesPage.timers : t.id = recipesPage.changes

(***************************************************************************)
(* C28.  Once every getRecipes call of the page has returned, the recipes  *)
(* and the total shown are those of the most recent filters, sort and      *)
(* page, whatever the order in which the calls start and return.           *)
(***************************************************************************)
C28_LatestResultShown ==
  (recipesPage.called /\ recipesPage.timers = {} /\ recipesPage.fetches = {}) =>
    recipesPage.shown = Some(recipesPage.args)
====
